---- MODULE Spec2Model ----
(***************************************************************************)
(* Model of the moonlander-signals backend: the indicator functions of     *)
(* indicators.py, the composite scoring engine of scoring.py with the      *)
(* weights and thresholds of config.py, and process_single_asset of        *)
(* signal_generator.py, and get_fear_greed_signal of fear_greed_client.py.  *)
(*                                                                         *)
(* The specifications share the variables:                                 *)
(*   SpecDemark      a close series grows one bar at a time and            *)
(*                   calculate_demark is re-run on every prefix;           *)
(*   SpecScore       calculate_final_score is applied to inputs drawn      *)
(*                   from bounded sets;                                    *)
(*   SpecEngine      scoring.py imports its configuration and the          *)
(*                   functions are called repeatedly;                      *)
(*   SpecOrder       indicator_results is filled in any order and scored   *)
(*                   in float arithmetic;                                  *)
(*   SpecIndicators  the indicator functions are re-run on a growing       *)
(*                   series of candles;                                    *)
(*   SpecRsi         calculate_rsi on series whose change turns;           *)
(*   SpecMacd        calculate_macd on series with averages of exactly 0;  *)
(*   SpecPipeline    analyze_ohlc_data and process_single_asset on the     *)
(*                   candles of one asset;                                 *)
(*   SpecSentiment   get_fear_greed_signal on index values;                *)
(*   SpecThresholds  the 7-tier conversion on composites in [-1, 1];       *)
(*   SpecGenerate    generate_all_signals called again and again on one    *)
(*                   SignalGenerator;                                      *)
(*   SpecCache       the API server's cache under concurrent refreshes;    *)
(*   SpecFearGreed   the Fear & Greed client's cache as time passes.       *)
(***************************************************************************)
EXTENDS Integers, Sequences, FiniteSets, TLC

VARIABLES
    closes,        \* the close series handed to calculate_demark
    sell_count,    \* calculate_demark's local sell_count when it returns
    buy_count,     \* calculate_demark's local buy_count when it returns
    demark,        \* the record calculate_demark returned for closes
    tracker,       \* incremental tracker: [kind, n, last4]
    tracked,       \* the ExhaustionState the incremental tracker reports
    pc,            \* "input": arguments chosen; "done": calculate_final_score returned
    indicator_results, \* argument: timeframe -> indicators of that timeframe
    funding_data,  \* argument: [present, funding_rate]
    oi_data,       \* argument: [present, open_interest]
    ls_ratio_data, \* argument: [present, long_short_ratio]
    adx,           \* the asset's calculate_adx result, not an argument of the call
    result,        \* the SignalScore returned, with the unrounded locals
    config,        \* config.py's module globals SCORING_WEIGHTS and SCORE_THRESHOLDS
    calls,         \* the number of engine calls made after the first score
    order,         \* the keys of indicator_results in the order they were inserted
    highs,         \* the highs of the asset's candles, one per close
    lows,          \* the lows of the asset's candles, one per close
    volumes,       \* the asset's volume series
    indicators,    \* what the indicator functions return for the series
    analysis,      \* what analyze_ohlc_data returns for the candles
    asset,         \* how far process_single_asset got, and what it returned
    sentiment,     \* the last call of get_fear_greed_signal: its argument and what it returned
    conversion,    \* the last composite converted to a 7-tier score, and the score
    now,           \* datetime.utcnow(), in ticks
    generator,     \* a SignalGenerator: [signals_cache, fear_greed_cache, last_update]
    response,      \* what the last call of generate_all_signals on generator returned
    api_cache,     \* api_server.py's _cache: [signals, last_update]
    refreshing,    \* the refresh_signals calls in progress, in the order they started
    completed,     \* the refresh_signals call that ended last, and how it ended
    request,       \* the last call of get_cached_signals, /refresh or the periodic task
    fg_client,     \* the FearGreedClient: [cache, cache_time]
    fg_call        \* the last call of FearGreedClient.get_fear_greed and what it returned

demarkVars == <<closes, sell_count, buy_count, demark, tracker, tracked>>

scoreVars == <<pc, indicator_results, funding_data, oi_data, ls_ratio_data,
               adx, result, config, calls>>

orderVars == <<order>>

indicatorVars == <<highs, lows, volumes, indicators, analysis, asset>>

serviceVars == <<sentiment, conversion, now, generator, response,
                 api_cache, refreshing, completed, request, fg_client, fg_call>>

vars == <<demarkVars, scoreVars, orderVars, indicatorVars, serviceVars>>

-----------------------------------------------------------------------------
(* Bounds *)

\* longest close series fed to calculate_demark
MaxBars == 14

\* the first four closes of a series (they have no bar four places back)
BasePrice == 10

\* the longest series of candles the indicators are run on
MaxCandles == 37

\* the longest series calculate_rsi is run on, and how often its change may turn
MaxRsiBars == 17

MaxTurns == 2

\* the longest series calculate_macd is run on
MaxMacdBars == 36

\* the most candles the exchange gives for an asset
MaxOhlc == 51

-----------------------------------------------------------------------------
(* indicators.py: calculate_demark *)

None == "None"

Min(a, b) == IF a < b THEN a ELSE b
Max(a, b) == IF a > b THEN a ELSE b

\* the forward loop body with the equal branch leaving the counters alone
DemarkStepNoEqualReset(sc, current_close, compare_close) ==
    IF current_close < compare_close
    THEN <<Min(sc[1] + 1, 9), 0>>
    ELSE IF current_close > compare_close
         THEN <<0, Min(sc[2] + 1, 9)>>
         ELSE sc

\* the forward loop body without the cap at 9
DemarkStepNoCap(sc, current_close, compare_close) ==
    IF current_close < compare_close
    THEN <<sc[1] + 1, 0>>
    ELSE IF current_close > compare_close
         THEN <<0, sc[2] + 1>>
         ELSE <<0, 0>>

\* the forward loop body not clearing the other direction's counter
DemarkStepNoFlipReset(sc, current_close, compare_close) ==
    IF current_close < compare_close
    THEN <<Min(sc[1] + 1, 9), sc[2]>>
    ELSE IF current_close > compare_close
         THEN <<sc[1], Min(sc[2] + 1, 9)>>
         ELSE <<0, 0>>

\* the forward loop body continuing a run across a bar that breaks it
DemarkStepSticky(sc, current_close, compare_close) ==
    IF current_close < compare_close
    THEN <<Min(sc[1] + 1, 9), 0>>
    ELSE IF current_close > compare_close
         THEN <<0, Min(sc[2] + 1, 9)>>
         ELSE IF sc[1] >= 9 \/ sc[2] >= 9 THEN sc ELSE <<0, 0>>

\* One iteration of the forward loop; sc = <<sell_count, buy_count>>.
DemarkStep(sc, current_close, compare_close) ==
    IF current_close < compare_close
    THEN LET b == IF sc[2] > 0 THEN 0 ELSE sc[2]
             s == sc[1] + 1
         IN  <<IF s >= 9 THEN 9 ELSE s, b>>
    ELSE IF current_close > compare_close
         THEN LET s == IF sc[1] > 0 THEN 0 ELSE sc[1]
                  b == sc[2] + 1
              IN  <<s, IF b >= 9 THEN 9 ELSE b>>
         ELSE <<0, 0>>

\* the forward loop comparing with the close 3 bars earlier
RECURSIVE ForwardScanLookback3(_, _, _)
ForwardScanLookback3(cs, i, sc) ==
    IF i > Len(cs) THEN sc
    ELSE ForwardScanLookback3(cs, i + 1, DemarkStep(sc, cs[i], cs[i - 3]))

\* The forward loop "for i in range(4, len(closes))", from 1-based index i.
RECURSIVE ForwardScan(_, _, _)
ForwardScan(cs, i, sc) ==
    IF i > Len(cs) THEN sc
    ELSE ForwardScan(cs, i + 1, DemarkStep(sc, cs[i], cs[i - 4]))

\* One iteration of the first (backward) loop, which has no cap.
BackwardStep(sc, current_close, compare_close) ==
    IF current_close < compare_close
    THEN <<sc[1] + 1, IF sc[2] > 0 THEN 0 ELSE sc[2]>>
    ELSE IF current_close > compare_close
         THEN <<IF sc[1] > 0 THEN 0 ELSE sc[1], sc[2] + 1>>
         ELSE <<0, 0>>

\* The first loop "for i in range(len(closes) - 1, 3, -1)" with its break.
RECURSIVE BackwardScan(_, _, _)
BackwardScan(cs, i, sc) ==
    IF i < 5 THEN sc
    ELSE LET nxt == BackwardStep(sc, cs[i], cs[i - 4])
         IN  IF nxt[1] = 0 /\ nxt[2] = 0 THEN nxt
             ELSE BackwardScan(cs, i - 1, nxt)

\* The record built from the counters the forward loop leaves.
DemarkRecord(sc) ==
    IF sc[1] > 0
    THEN [count |-> sc[1], direction |-> "sell", signal |-> "bullish",
          active |-> TRUE, completed |-> sc[1] >= 9]
    ELSE IF sc[2] > 0
         THEN [count |-> sc[2], direction |-> "buy", signal |-> "bearish",
               active |-> TRUE, completed |-> sc[2] >= 9]
         ELSE [count |-> 0, direction |-> None, signal |-> None,
               active |-> FALSE, completed |-> FALSE]

\* the record of a series too short to compare
ShortRecord ==
    [count |-> 0, direction |-> None, signal |-> None,
     active |-> FALSE, completed |-> FALSE]

\* The counters calculate_demark holds when it returns.  The counters of the
\* backward loop are overwritten with 0 before the forward loop starts.
DemarkCounters(cs) ==
    IF Len(cs) < 5 THEN <<0, 0>>
    ELSE LET discarded == BackwardScan(cs, Len(cs), <<0, 0>>)
             restart   == <<0 * discarded[1], 0 * discarded[2]>>
         IN  ForwardScan(cs, 5, restart)

calculate_demark(cs) ==
    IF Len(cs) < 5 THEN ShortRecord ELSE DemarkRecord(DemarkCounters(cs))

-----------------------------------------------------------------------------
(* Incremental tracker of the DeMark state machine (Idle, CountingSell(n),  *)
(* CountingBuy(n)), keeping the state and the last four closes.            *)

TrackerInit == [kind |-> "Idle", n |-> 0, last4 |-> <<>>]

TrackerStep(t, close) ==
    LET window == IF Len(t.last4) < 4 THEN Append(t.last4, close)
                  ELSE Append(Tail(t.last4), close)
    IN  IF Len(t.last4) < 4
        THEN [kind |-> "Idle", n |-> 0, last4 |-> window]
        ELSE LET ref == t.last4[1]
             IN  IF close < ref
                 THEN [kind |-> "CountingSell",
                       n |-> IF t.kind = "CountingSell" THEN Min(t.n + 1, 9) ELSE 1,
                       last4 |-> window]
                 ELSE IF close > ref
                      THEN [kind |-> "CountingBuy",
                            n |-> IF t.kind = "CountingBuy" THEN Min(t.n + 1, 9) ELSE 1,
                            last4 |-> window]
                      ELSE [kind |-> "Idle", n |-> 0, last4 |-> window]

\* the ExhaustionState the tracker reports
TrackerReport(t) ==
    [count |-> t.n,
     setup_kind |-> IF t.kind = "CountingSell" THEN "sell"
                    ELSE IF t.kind = "CountingBuy" THEN "buy" ELSE "none",
     expected_reversal |-> IF t.kind = "CountingSell" THEN "bullish"
                           ELSE IF t.kind = "CountingBuy" THEN "bearish" ELSE "none",
     completed |-> t.n = 9]

\* calculate_demark's record read as an ExhaustionState
AsExhaustionState(r) ==
    [count |-> r.count,
     setup_kind |-> IF r.direction = None THEN "none" ELSE r.direction,
     expected_reversal |-> IF r.signal = None THEN "none" ELSE r.signal,
     completed |-> r.completed]

-----------------------------------------------------------------------------
(* Numbers.  The engine computes in floats; the model computes the same     *)
(* expressions exactly, in units of 1/ONE.  ONE is chosen so that every     *)
(* quotient the engine forms on the modelled inputs is a whole number of    *)
(* units (Div fails otherwise) and so that 1e-4 is a whole number of units. *)
(* The modelled inputs are ones on which the float engine and the exact     *)
(* computation take the same branches; round() of an exact tie is modelled  *)
(* as round-half-even, where the float engine rounds by its residue.        *)

ONE == 10080 * 1000

\* n hundredths
Pct(n) == n * (ONE \div 100)

\* exact quotient
Div(a, b) == CHOOSE q \in {a \div b} : q * b = a

Abs(x) == IF x < 0 THEN -x ELSE x

Sign(x) == IF x > 0 THEN 1 ELSE IF x < 0 THEN -1 ELSE 0

\* max(-1, min(1, x))
Clamp(x) == Max(-ONE, Min(ONE, x))

\* round(x, digits): to the nearest multiple of unit, ties to even
Round(x, unit) ==
    LET q == x \div unit
        r == x % unit
    IN  IF 2 * r < unit THEN q * unit
        ELSE IF 2 * r > unit THEN (q + 1) * unit
        ELSE IF q % 2 = 0 THEN q * unit ELSE (q + 1) * unit

RECURSIVE SumFn(_, _)
SumFn(f, S) ==
    IF S = {} THEN 0
    ELSE LET x == CHOOSE y \in S : TRUE
         IN  f[x] + SumFn(f, S \ {x})

-----------------------------------------------------------------------------
(* config.py *)

TIMEFRAMES == {"15m", "1h", "4h", "1d"}

\* a weight table whose weights sum to 2
SCORING_WEIGHTS_Doubled ==
    [rsi_multi_tf |-> 40, ema_trend_multi_tf |-> 40, macd_multi_tf |-> 30,
     volume_confirmation |-> 20, bollinger_position |-> 20,
     liquidation_estimate |-> 20, funding_sentiment |-> 30]

\* a weight table with the rsi and ema weights changed
SCORING_WEIGHTS_Lopsided ==
    [rsi_multi_tf |-> 30, ema_trend_multi_tf |-> 10, macd_multi_tf |-> 15,
     volume_confirmation |-> 10, bollinger_position |-> 10,
     liquidation_estimate |-> 10, funding_sentiment |-> 15]

\* SCORING_WEIGHTS, in hundredths
SCORING_WEIGHTS ==
    [rsi_multi_tf |-> 20, ema_trend_multi_tf |-> 20, macd_multi_tf |-> 15,
     volume_confirmation |-> 10, bollinger_position |-> 10,
     liquidation_estimate |-> 10, funding_sentiment |-> 15]

\* the cutoffs with the strong tiers at 0.55
SCORE_THRESHOLDS_Strong55 ==
    [strong_long |-> Pct(55), long |-> Pct(35), lean_long |-> Pct(15),
     lean_short |-> -Pct(15), short |-> -Pct(35), strong_short |-> -Pct(55)]

SCORE_THRESHOLDS ==
    [strong_long |-> Pct(60), long |-> Pct(35), lean_long |-> Pct(15),
     lean_short |-> -Pct(15), short |-> -Pct(35), strong_short |-> -Pct(60)]

\* the two dictionaries as config.py sets them when it is imported
ConfigModule ==
    [SCORING_WEIGHTS |-> SCORING_WEIGHTS, SCORE_THRESHOLDS |-> SCORE_THRESHOLDS]

-----------------------------------------------------------------------------
(* scoring.py *)

SCORE_LABELS ==
    [s \in -3..3 |->
        CASE s = -3 -> "STRONG SHORT"
          [] s = -2 -> "SHORT"
          [] s = -1 -> "LEAN SHORT"
          [] s = 0  -> "NEUTRAL"
          [] s = 1  -> "LEAN LONG"
          [] s = 2  -> "LONG"
          [] s = 3  -> "STRONG LONG"]

\* "indicators and indicators.get(key)": the timeframe has data for key
HasKey(ir, tf, key) == ir[tf].present /\ ir[tf][key].present

\* the timeframes with data for key
WithKey(ir, key) == {tf \in TIMEFRAMES : HasKey(ir, tf, key)}

\* count_aligned_timeframes reporting an average strength of 0.5 when no
\* timeframe has the indicator
count_aligned_timeframes_DefaultStrength(ir, indicator_key) ==
    LET tfs == WithKey(ir, indicator_key)
        bullish_count ==
            Cardinality({tf \in tfs : ir[tf][indicator_key].signal = "bullish"})
        bearish_count ==
            Cardinality({tf \in tfs : ir[tf][indicator_key].signal = "bearish"})
        neutral_count == Cardinality(tfs) - bullish_count - bearish_count
        total_strength ==
            SumFn([tf \in tfs |-> ir[tf][indicator_key].strength], tfs)
        total == bullish_count + bearish_count + neutral_count
    IN  [bullish |-> bullish_count, bearish |-> bearish_count,
         neutral |-> neutral_count, total |-> total,
         aligned_bullish |-> bullish_count, aligned_bearish |-> bearish_count,
         avg_strength |-> IF total > 0 THEN Div(total_strength, total)
                          ELSE Pct(50)]

count_aligned_timeframes(ir, indicator_key) ==
    LET tfs == WithKey(ir, indicator_key)
        bullish_count ==
            Cardinality({tf \in tfs : ir[tf][indicator_key].signal = "bullish"})
        bearish_count ==
            Cardinality({tf \in tfs : ir[tf][indicator_key].signal = "bearish"})
        neutral_count == Cardinality(tfs) - bullish_count - bearish_count
        total_strength ==
            SumFn([tf \in tfs |-> ir[tf][indicator_key].strength], tfs)
        total == bullish_count + bearish_count + neutral_count
    IN  [bullish |-> bullish_count, bearish |-> bearish_count,
         neutral |-> neutral_count, total |-> total,
         aligned_bullish |-> bullish_count, aligned_bearish |-> bearish_count,
         avg_strength |-> IF total > 0 THEN Div(total_strength, total) ELSE 0]

score_rsi_multi_tf(ir) ==
    LET alignment == count_aligned_timeframes(ir, "rsi")
        score ==
            IF alignment.aligned_bullish = 4 THEN ONE
            ELSE IF alignment.aligned_bullish = 3 THEN Pct(70)
            ELSE IF alignment.aligned_bullish = 2 /\ alignment.aligned_bearish = 0
                 THEN Pct(40)
            ELSE IF alignment.aligned_bearish = 4 THEN -ONE
            ELSE IF alignment.aligned_bearish = 3 THEN -Pct(70)
            ELSE IF alignment.aligned_bearish = 2 /\ alignment.aligned_bullish = 0
                 THEN -Pct(40)
            ELSE Div(alignment.avg_strength * 3, 10)
    IN  [score |-> score, alignment |-> alignment,
         fire_count |-> Max(alignment.aligned_bullish, alignment.aligned_bearish)]

score_ema_multi_tf(ir) ==
    LET alignment == count_aligned_timeframes(ir, "ema")
        tfs == WithKey(ir, "ema")
        trend_confirms ==
            Cardinality({tf \in tfs : ir[tf].ema.price_above_trend
                                         /\ ir[tf].ema.fast_above_slow})
        trend_denies ==
            Cardinality({tf \in tfs : ~ir[tf].ema.price_above_trend
                                         /\ ~ir[tf].ema.fast_above_slow})
        score ==
            IF alignment.aligned_bullish = 4 THEN ONE
            ELSE IF alignment.aligned_bullish >= 3 THEN Pct(65)
            ELSE IF alignment.aligned_bearish = 4 THEN -ONE
            ELSE IF alignment.aligned_bearish >= 3 THEN -Pct(65)
            ELSE Div(alignment.avg_strength * 4, 10)
        boosted ==
            IF trend_confirms >= 3 THEN Min(ONE, score + Pct(20))
            ELSE IF trend_denies >= 3 THEN Max(-ONE, score - Pct(20))
            ELSE score
    IN  [score |-> boosted, alignment |-> alignment,
         trend_confirms |-> trend_confirms,
         fire_count |-> Max(alignment.aligned_bullish, alignment.aligned_bearish)]

score_macd_multi_tf(ir) ==
    LET alignment == count_aligned_timeframes(ir, "macd")
        tfs == WithKey(ir, "macd")
        histogram_rising ==
            Cardinality({tf \in tfs : ir[tf].macd.histogram_rising})
        score ==
            IF alignment.aligned_bullish = 4 THEN ONE
            ELSE IF alignment.aligned_bullish >= 3 THEN Pct(60)
            ELSE IF alignment.aligned_bearish = 4 THEN -ONE
            ELSE IF alignment.aligned_bearish >= 3 THEN -Pct(60)
            ELSE Div(alignment.avg_strength * 35, 100)
    IN  [score |-> score, alignment |-> alignment,
         histogram_rising |-> histogram_rising,
         fire_count |-> Max(alignment.aligned_bullish, alignment.aligned_bearish)]

\* score_volume with a boost threshold of 0.3 instead of 0.5
score_volume_Eager(ir) ==
    LET tfs == WithKey(ir, "volume")
    IN  IF tfs = {}
        THEN [score |-> 0, avg_volume_strength |-> 0, confirms_move |-> FALSE]
        ELSE LET avg_strength ==
                     Div(SumFn([tf \in tfs |-> ir[tf].volume.strength], tfs),
                         Cardinality(tfs))
             IN  [score |-> 0, avg_volume_strength |-> avg_strength,
                  confirms_move |-> avg_strength > Pct(30)]

\* Without volume data the returned dict has no "confirms_move", which the
\* caller reads with .get() as false.
score_volume(ir) ==
    LET tfs == WithKey(ir, "volume")
    IN  IF tfs = {}
        THEN [score |-> 0, avg_volume_strength |-> 0, confirms_move |-> FALSE]
        ELSE LET avg_strength ==
                     Div(SumFn([tf \in tfs |-> ir[tf].volume.strength], tfs),
                         Cardinality(tfs))
             IN  [score |-> 0, avg_volume_strength |-> avg_strength,
                  confirms_move |-> avg_strength > Pct(50)]

\* tf_weights, in tenths
tf_weights == [tf \in TIMEFRAMES |->
                  CASE tf = "15m" -> 1 [] tf = "1h" -> 2
                    [] tf = "4h" -> 3 [] tf = "1d" -> 4]

score_bollinger(ir) ==
    LET tfs == WithKey(ir, "bollinger")
        weighted_score ==
            SumFn([tf \in tfs |-> ir[tf].bollinger.strength * tf_weights[tf]], tfs)
        total_weight == SumFn([tf \in tfs |-> tf_weights[tf]], tfs)
    IN  IF total_weight = 0 THEN [score |-> 0, weighted_score |-> 0]
        ELSE [score |-> Div(weighted_score, total_weight),
              weighted_score |-> Div(weighted_score, 10)]

\* funding_rate is in units of 0.0001, percent_b in hundredths
score_liquidation_estimate(ir, funding, oi) ==
    LET from_band ==
            IF HasKey(ir, "4h", "bollinger")
            THEN IF ir["4h"].bollinger.percent_b > 90 THEN -Pct(30)
                 ELSE IF ir["4h"].bollinger.percent_b < 10 THEN Pct(30)
                 ELSE 0
            ELSE 0
        from_funding ==
            IF funding.present
            THEN IF funding.funding_rate > 5 THEN -Pct(40)
                 ELSE IF funding.funding_rate < -5 THEN Pct(40)
                 ELSE IF funding.funding_rate > 2 THEN -Pct(20)
                 ELSE IF funding.funding_rate < -2 THEN Pct(20)
                 ELSE 0
            ELSE 0
    IN  [score |-> Clamp(from_band + from_funding)]

\* long_short_ratio is in hundredths
score_funding_sentiment(funding, ls) ==
    LET from_funding ==
            IF funding.present
            THEN IF funding.funding_rate > 10 THEN -Pct(60)
                 ELSE IF funding.funding_rate > 5 THEN -Pct(30)
                 ELSE IF funding.funding_rate < -10 THEN Pct(60)
                 ELSE IF funding.funding_rate < -5 THEN Pct(30)
                 ELSE 0
            ELSE 0
        from_ratio ==
            IF ls.present
            THEN IF ls.long_short_ratio > 200 THEN -Pct(30)
                 ELSE IF ls.long_short_ratio > 150 THEN -Pct(15)
                 ELSE IF ls.long_short_ratio < 50 THEN Pct(30)
                 ELSE IF ls.long_short_ratio < 67 THEN Pct(15)
                 ELSE 0
            ELSE 0
    IN  [score |-> Clamp(from_funding + from_ratio)]

\* the tier with a composite on the lean_short threshold left NEUTRAL
TierOf_StrictLeanShort(composite, thresholds) ==
    IF composite >= thresholds.strong_long THEN 3
    ELSE IF composite >= thresholds.long THEN 2
    ELSE IF composite >= thresholds.lean_long THEN 1
    ELSE IF composite <= thresholds.strong_short THEN -3
    ELSE IF composite <= thresholds.short THEN -2
    ELSE IF composite < thresholds.lean_short THEN -1
    ELSE 0

\* the tier of a composite
TierOf(composite, thresholds) ==
    IF composite >= thresholds.strong_long THEN 3
    ELSE IF composite >= thresholds.long THEN 2
    ELSE IF composite >= thresholds.lean_long THEN 1
    ELSE IF composite <= thresholds.strong_short THEN -3
    ELSE IF composite <= thresholds.short THEN -2
    ELSE IF composite <= thresholds.lean_short THEN -1
    ELSE 0

\* the agreement test with >= in place of >
AgreesOrZero(score, composite) ==
    IF Sign(score) * Sign(composite) >= 0 THEN 1 ELSE 0

\* "1 if score * composite > 0 else 0"
Agrees(score, composite) == IF Sign(score) * Sign(composite) > 0 THEN 1 ELSE 0

\* "Calculate individual component scores"
ComponentScores(ir, funding, oi, ls) ==
    [rsi |-> score_rsi_multi_tf(ir),
     ema |-> score_ema_multi_tf(ir),
     macd |-> score_macd_multi_tf(ir),
     volume |-> score_volume(ir),
     bollinger |-> score_bollinger(ir),
     liquidation |-> score_liquidation_estimate(ir, funding, oi),
     funding |-> score_funding_sentiment(funding, ls)]

\* "Calculate weighted composite score"; the weights are in hundredths
WeightedComposite(scores, weights) ==
    Div(scores.rsi.score * weights.rsi_multi_tf
        + scores.ema.score * weights.ema_trend_multi_tf
        + scores.macd.score * weights.macd_multi_tf
        + scores.volume.score * weights.volume_confirmation
        + scores.bollinger.score * weights.bollinger_position
        + scores.liquidation.score * weights.liquidation_estimate
        + scores.funding.score * weights.funding_sentiment,
        100)

\* the boost taken off the composite's magnitude instead of added to it
VolumeBoost_TowardZero(volume_score, composite) ==
    IF volume_score.confirms_move /\ Abs(composite) > Pct(20)
    THEN Clamp(composite - (IF composite > 0 THEN Pct(10) ELSE -Pct(10)))
    ELSE composite

\* "Volume can boost signals if high"
VolumeBoost(volume_score, composite) ==
    IF volume_score.confirms_move /\ Abs(composite) > Pct(20)
    THEN Clamp(composite + (IF composite > 0 THEN Pct(10) ELSE -Pct(10)))
    ELSE composite

\* "Calculate confidence based on indicator agreement": the agreements list
Agreements(scores, composite) ==
    <<Agrees(scores.rsi.score, composite),
      Agrees(scores.ema.score, composite),
      Agrees(scores.macd.score, composite),
      Agrees(scores.bollinger.score, composite),
      Agrees(scores.funding.score, composite)>>

\* "sum(agreements) / len(agreements) if agreements else 0.5"
Confidence(agreements) ==
    IF Len(agreements) = 0 THEN Pct(50)
    ELSE Div(SumFn(agreements, DOMAIN agreements) * ONE, Len(agreements))

\* The returned SignalScore, with the breakdown reduced to the component
\* scores; weighted, composite and agreements are the function's locals.
SignalScore(scores, weighted, composite, final_score, agreements) ==
    [returned |-> TRUE,
     score |-> final_score,
     label |-> SCORE_LABELS[final_score],
     composite_score |-> Round(composite, ONE \div 10000),
     confidence |-> Round(Confidence(agreements), ONE \div 100),
     breakdown |->
         [rsi |-> scores.rsi.score, ema |-> scores.ema.score,
          macd |-> scores.macd.score, volume |-> scores.volume.score,
          bollinger |-> scores.bollinger.score,
          liquidation |-> scores.liquidation.score,
          funding |-> scores.funding.score],
     confirms_move |-> scores.volume.confirms_move,
     weighted |-> weighted,
     composite |-> composite,
     agreements |-> agreements]

\* calculate_final_score from the boosted composite on
ScoreFromComposite(scores, weighted, composite) ==
    SignalScore(scores, weighted, composite,
                TierOf(composite, config.SCORE_THRESHOLDS),
                Agreements(scores, composite))

\* calculate_final_score from the component scores on
ScoreFromComponents(scores, weighted) ==
    ScoreFromComposite(scores, weighted, VolumeBoost(scores.volume, weighted))

calculate_final_score(ir, funding, oi, ls) ==
    ScoreFromComponents(ComponentScores(ir, funding, oi, ls),
                        WeightedComposite(ComponentScores(ir, funding, oi, ls),
                                          config.SCORING_WEIGHTS))

-----------------------------------------------------------------------------
(* Inputs of calculate_final_score *)

Absent == [present |-> FALSE]

RsiCell(sig, st) == [present |-> TRUE, signal |-> sig, strength |-> Pct(st)]

EmaCell(sig, st, above_trend, fast_above) ==
    [present |-> TRUE, signal |-> sig, strength |-> Pct(st),
     price_above_trend |-> above_trend, fast_above_slow |-> fast_above]

MacdCell(sig, st, rising) ==
    [present |-> TRUE, signal |-> sig, strength |-> Pct(st),
     histogram_rising |-> rising]

BollCell(st, pb) == [present |-> TRUE, strength |-> Pct(st), percent_b |-> pb]

VolCell(st) == [present |-> TRUE, strength |-> Pct(st)]

Timeframe(r, e, m, b, v) ==
    [present |-> TRUE, rsi |-> r, ema |-> e, macd |-> m, bollinger |-> b,
     volume |-> v]

\* The indicator sets one timeframe may carry: a timeframe that is None, a
\* bullish, a bearish and a flat one with every indicator, and timeframes
\* that carry only some indicators.
TimeframeChoices ==
    { [present |-> FALSE],
      Timeframe(RsiCell("bullish", 90), EmaCell("bullish", 60, TRUE, TRUE),
                MacdCell("bullish", 55, TRUE), BollCell(30, 5), VolCell(60)),
      Timeframe(RsiCell("bearish", -65), EmaCell("bearish", -65, FALSE, FALSE),
                MacdCell("bearish", -55, FALSE), BollCell(-65, 95), VolCell(60)),
      Timeframe(RsiCell("neutral", 0), EmaCell("neutral", 0, TRUE, FALSE),
                MacdCell("neutral", 0, FALSE), BollCell(0, 50), VolCell(30)),
      Timeframe(RsiCell("bullish", 100), EmaCell("bullish", 100, TRUE, TRUE),
                MacdCell("bullish", 100, TRUE), Absent, Absent),
      Timeframe(Absent, Absent, MacdCell("bearish", -100, FALSE), Absent, Absent),
      Timeframe(RsiCell("bullish", 40), EmaCell("bearish", -45, FALSE, TRUE),
                MacdCell("neutral", 20, TRUE), BollCell(-85, 105), VolCell(100)) }

\* funding rates, in units of 0.0001
FundingChoices ==
    { [present |-> FALSE] }
    \cup { [present |-> TRUE, funding_rate |-> f] : f \in {-11, 3, 6} }

OpenInterestChoices ==
    { [present |-> FALSE], [present |-> TRUE, open_interest |-> 1000] }

\* long/short ratios, in hundredths
LongShortChoices ==
    { [present |-> FALSE] }
    \cup { [present |-> TRUE, long_short_ratio |-> r] : r \in {40, 160} }

NoResult == [returned |-> FALSE]

-----------------------------------------------------------------------------
(* SpecScore *)

\* SignalGenerator(): signals_cache = {}, fear_greed_cache = {}, last_update =
\* None; last_update is <<>> or the one-element sequence of a time
SignalGenerator ==
    [signals_cache |-> <<>>, fear_greed_cache |-> <<>>, last_update |-> <<>>]

\* no candles, nothing computed from them, and no call made yet
IndicatorIdle ==
    /\ highs = <<>>
    /\ lows = <<>>
    /\ volumes = <<>>
    /\ indicators = [computed |-> FALSE]
    /\ analysis = [returned |-> FALSE]
    /\ asset = [pc |-> "idle"]
    /\ sentiment = [called |-> FALSE]
    /\ conversion = [called |-> FALSE]
    /\ now = 0
    /\ generator = SignalGenerator
    /\ response = [returned |-> FALSE]
    /\ api_cache = [signals |-> Absent, last_update |-> <<>>]
    /\ refreshing = <<>>
    /\ completed = [returned |-> FALSE]
    /\ request = [kind |-> "none"]
    /\ fg_client = [cache |-> <<>>, cache_time |-> <<>>]
    /\ fg_call = [returned |-> FALSE]

ScoreIdle ==
    /\ pc = "idle"
    /\ indicator_results = [tf \in TIMEFRAMES |-> [present |-> FALSE]]
    /\ funding_data = [present |-> FALSE]
    /\ oi_data = [present |-> FALSE]
    /\ ls_ratio_data = [present |-> FALSE]
    /\ adx = [adx |-> 0, direction |-> "bearish"]
    /\ result = NoResult
    /\ config = ConfigModule
    /\ calls = 0
    /\ order = <<>>
    /\ IndicatorIdle

DemarkIdle ==
    /\ closes = <<>>
    /\ sell_count = 0
    /\ buy_count = 0
    /\ demark = ShortRecord
    /\ tracker = TrackerInit
    /\ tracked = TrackerReport(TrackerInit)

InitScore ==
    /\ DemarkIdle
    /\ pc = "15m"
    /\ indicator_results = [tf \in TIMEFRAMES |-> [present |-> FALSE]]
    /\ funding_data = [present |-> FALSE]
    /\ oi_data = [present |-> FALSE]
    /\ ls_ratio_data = [present |-> FALSE]
    /\ adx = [adx |-> 0, direction |-> "bearish"]
    /\ result = NoResult
    /\ config = ConfigModule
    /\ calls = 0
    /\ order = <<>>
    /\ IndicatorIdle

\* The caller fills indicator_results[tf] for the next timeframe.
Analyze ==
    /\ pc \in TIMEFRAMES
    /\ \E c \in TimeframeChoices :
         indicator_results' = [indicator_results EXCEPT ![pc] = c]
    \* the step that follows the analysis of this timeframe
    /\ pc' = CASE pc = "15m" -> "1h"
               [] pc = "1h" -> "4h"
               [] pc = "4h" -> "1d"
               [] pc = "1d" -> "market"
    /\ UNCHANGED <<funding_data, oi_data, ls_ratio_data, adx, result, config, calls>>
    /\ UNCHANGED demarkVars
    /\ UNCHANGED orderVars
    /\ UNCHANGED serviceVars
    /\ UNCHANGED indicatorVars

\* The caller obtains the funding, open-interest and long/short data, each
\* possibly missing, and the asset's ADX.
Fetch ==
    /\ pc = "market"
    /\ funding_data' \in FundingChoices
    /\ oi_data' \in OpenInterestChoices
    /\ ls_ratio_data' \in LongShortChoices
    \* calculate_adx results of the asset, one per band of the ADX value
    /\ adx' \in
            ({ [adx |-> 15, direction |-> "bullish"],
               [adx |-> 35, direction |-> "bullish"],
               [adx |-> 65, direction |-> "bearish"] })
    /\ pc' = "input"
    /\ UNCHANGED <<indicator_results, result, config, calls>>
    /\ UNCHANGED demarkVars
    /\ UNCHANGED orderVars
    /\ UNCHANGED serviceVars
    /\ UNCHANGED indicatorVars

\* The call calculate_final_score(indicator_results, funding_data, oi_data,
\* ls_ratio_data); the arguments are left as they were.
Score ==
    /\ pc = "input"
    /\ result' = calculate_final_score(indicator_results, funding_data,
                                       oi_data, ls_ratio_data)
    /\ pc' = "done"
    /\ UNCHANGED <<indicator_results, funding_data, oi_data, ls_ratio_data, adx,
                   config, calls>>
    /\ UNCHANGED demarkVars
    /\ UNCHANGED orderVars
    /\ UNCHANGED serviceVars
    /\ UNCHANGED indicatorVars

SpecScore == InitScore /\ [][Analyze \/ Fetch \/ Score]_vars

-----------------------------------------------------------------------------
(* SpecDemark *)

InitDemark ==
    /\ closes = <<>>
    /\ sell_count = 0
    /\ buy_count = 0
    /\ demark = calculate_demark(<<>>)
    /\ tracker = TrackerInit
    /\ tracked = TrackerReport(TrackerInit)
    /\ ScoreIdle

\* A new bar arrives: calculate_demark is re-run on the whole series, and the
\* incremental tracker is fed the one new close.
FeedBar ==
    /\ Len(closes) < MaxBars
    \* the closes the next bar may have: a later close differs from the close
    \* four bars earlier by at most one
    /\ \E c \in (IF Len(closes) < 4 THEN {BasePrice}
                 ELSE {closes[Len(closes) - 3] + d : d \in {-1, 0, 1}}) :
         /\ closes' = Append(closes, c)
         /\ sell_count' = DemarkCounters(closes')[1]
         /\ buy_count' = DemarkCounters(closes')[2]
         /\ demark' = calculate_demark(closes')
         /\ tracker' = TrackerStep(tracker, c)
         /\ tracked' = TrackerReport(tracker')
    /\ UNCHANGED scoreVars
    /\ UNCHANGED orderVars
    /\ UNCHANGED serviceVars
    /\ UNCHANGED indicatorVars

SpecDemark == InitDemark /\ [][FeedBar]_vars

-----------------------------------------------------------------------------
(* SpecEngine: config.py is imported, the arguments of one asset are loaded, *)
(* and calculate_final_score and calculate_demark are then called on them   *)
(* again and again, in any order.                                           *)

\* the number of calls made after the first score
MaxCalls == 2

\* cutoffs that are not monotone: strong_long lies below lean_long
SCORE_THRESHOLDS_NonMonotone ==
    [strong_long |-> Pct(10), long |-> Pct(35), lean_long |-> Pct(15),
     lean_short |-> -Pct(15), short |-> -Pct(35), strong_short |-> -Pct(60)]

\* the first three of TimeframeChoices: none, all bullish, all bearish
EngineTimeframes ==
    { c \in TimeframeChoices :
        c.present => /\ c.bollinger.present
                     /\ c.rsi.signal = c.ema.signal
                     /\ c.rsi.signal # "neutral" }

InitEngine ==
    /\ DemarkIdle
    /\ pc = "import"
    /\ indicator_results = [tf \in TIMEFRAMES |-> [present |-> FALSE]]
    /\ funding_data = [present |-> FALSE]
    /\ oi_data = [present |-> FALSE]
    /\ ls_ratio_data = [present |-> FALSE]
    /\ adx = [adx |-> 0, direction |-> "bearish"]
    /\ result = NoResult
    /\ config = ConfigModule
    /\ calls = 0
    /\ order = <<>>
    /\ IndicatorIdle

\* "from config import SCORING_WEIGHTS, SCORE_THRESHOLDS": the dictionaries
\* are taken as config.py has them; nothing inspects them.
ImportConfig ==
    /\ pc = "import"
    \* the contents config.py may have: as shipped, or with the cutoffs edited
    /\ config' \in
            ({ ConfigModule,
               [ConfigModule EXCEPT !.SCORE_THRESHOLDS = SCORE_THRESHOLDS_NonMonotone] })
    /\ pc' = "load"
    /\ UNCHANGED <<indicator_results, funding_data, oi_data, ls_ratio_data,
                   adx, result, calls>>
    /\ UNCHANGED demarkVars
    /\ UNCHANGED orderVars
    /\ UNCHANGED serviceVars
    /\ UNCHANGED indicatorVars

\* The caller has the close series and the arguments of one asset.
Load ==
    /\ pc = "load"
    /\ indicator_results' \in [TIMEFRAMES -> EngineTimeframes]
    /\ funding_data' \in FundingChoices
    /\ oi_data' \in OpenInterestChoices
    /\ ls_ratio_data' \in LongShortChoices
    \* close series of 13 bars: rising, falling, and rising then flat
    /\ closes' \in
            ({ [i \in 1..13 |-> 10 + i],
               [i \in 1..13 |-> 30 - i],
               [i \in 1..13 |-> IF i < 12 THEN 10 + i ELSE 17] })
    /\ pc' = "input"
    /\ UNCHANGED <<adx, result, config, calls>>
    /\ UNCHANGED <<sell_count, buy_count, demark, tracker, tracked>>
    /\ UNCHANGED orderVars
    /\ UNCHANGED serviceVars
    /\ UNCHANGED indicatorVars

\* a later call that rescales the shared weight table in place
RescoreScalingWeights ==
    /\ pc = "done"
    /\ calls < MaxCalls
    /\ result' = calculate_final_score(indicator_results, funding_data,
                                       oi_data, ls_ratio_data)
    /\ config' = [config EXCEPT !.SCORING_WEIGHTS = SCORING_WEIGHTS_Doubled]
    /\ calls' = calls + 1
    /\ UNCHANGED <<pc, indicator_results, funding_data, oi_data, ls_ratio_data,
                   adx>>
    /\ UNCHANGED demarkVars
    /\ UNCHANGED orderVars
    /\ UNCHANGED serviceVars
    /\ UNCHANGED indicatorVars

\* A later call calculate_final_score(...) on the same arguments.
Rescore ==
    /\ pc = "done"
    /\ calls < MaxCalls
    /\ result' = calculate_final_score(indicator_results, funding_data,
                                       oi_data, ls_ratio_data)
    /\ calls' = calls + 1
    /\ UNCHANGED <<pc, indicator_results, funding_data, oi_data, ls_ratio_data,
                   adx, config>>
    /\ UNCHANGED demarkVars
    /\ UNCHANGED orderVars
    /\ UNCHANGED serviceVars
    /\ UNCHANGED indicatorVars

\* A call calculate_demark(closes) on the asset's close series.
Count ==
    /\ pc = "done"
    /\ calls < MaxCalls
    /\ sell_count' = DemarkCounters(closes)[1]
    /\ buy_count' = DemarkCounters(closes)[2]
    /\ demark' = calculate_demark(closes)
    /\ calls' = calls + 1
    /\ UNCHANGED <<closes, tracker, tracked>>
    /\ UNCHANGED <<pc, indicator_results, funding_data, oi_data, ls_ratio_data,
                   adx, result, config>>
    /\ UNCHANGED orderVars
    /\ UNCHANGED serviceVars
    /\ UNCHANGED indicatorVars

SpecEngine == InitEngine /\ [][ImportConfig \/ Load \/ Score \/ Rescore \/ Count]_vars

-----------------------------------------------------------------------------
(* Float sums in dictionary order.  count_aligned_timeframes adds the       *)
(* strengths with "total_strength += strength" while it iterates            *)
(* indicator_results.items(), that is, in the order the keys were inserted, *)
(* and every += rounds to a float.  A float is modelled as m * 2^e with an  *)
(* integer m; FloatAdd is the IEEE 754 binary64 sum on the operands it      *)
(* covers: those whose sum is exact, and those where the smaller operand    *)
(* lies below a quarter of the last place of the larger and is rounded      *)
(* away.                                                                    *)

\* bits in the significand of a Python float
SignificandBits == 53

RECURSIVE Pow2(_)
Pow2(k) == IF k = 0 THEN 1 ELSE 2 * Pow2(k - 1)

RECURSIVE BitLen(_)
BitLen(n) == IF n = 0 THEN 0 ELSE 1 + BitLen(n \div 2)

\* m * 2^e with m odd, or zero
RECURSIVE Float(_, _)
Float(m, e) ==
    IF m = 0 THEN [m |-> 0, e |-> 0]
    ELSE IF m % 2 = 0 THEN Float(m \div 2, e + 1)
    ELSE [m |-> m, e |-> e]

\* the position above the leading bit of x
Top(x) == x.e + BitLen(Abs(x.m))

\* x in units of 1/ONE
FloatUnits(x) ==
    IF x.e >= 0 THEN x.m * Pow2(x.e) * ONE ELSE Div(x.m * ONE, Pow2(-x.e))

\* x + y, rounded to a float
FloatAdd(x, y) ==
    IF x.m = 0 THEN y
    ELSE IF y.m = 0 THEN x
    ELSE LET e0 == Min(x.e, y.e)
             hi == IF Top(x) >= Top(y) THEN x ELSE y
             lo == IF Top(x) >= Top(y) THEN y ELSE x
         IN  CASE Top(hi) - e0 <= 30 ->
                    Float(x.m * Pow2(x.e - e0) + y.m * Pow2(y.e - e0), e0)
               [] Top(hi) - e0 > 30 /\ Top(lo) <= Top(hi) - SignificandBits - 2 ->
                    hi

\* count_aligned_timeframes over the timeframes in the order given; the
\* counts, and total_strength as a float
RECURSIVE count_aligned_in_order(_, _, _)
count_aligned_in_order(ir, tfs, key) ==
    IF tfs = <<>>
    THEN [bullish |-> 0, bearish |-> 0, neutral |-> 0, total_strength |-> Float(0, 0)]
    ELSE LET before == count_aligned_in_order(ir, SubSeq(tfs, 1, Len(tfs) - 1), key)
             tf == tfs[Len(tfs)]
         IN  IF ~HasKey(ir, tf, key) THEN before
             ELSE [bullish |-> before.bullish
                                 + (IF ir[tf][key].signal = "bullish" THEN 1 ELSE 0),
                   bearish |-> before.bearish
                                 + (IF ir[tf][key].signal = "bearish" THEN 1 ELSE 0),
                   neutral |-> before.neutral
                                 + (IF ir[tf][key].signal \in {"bullish", "bearish"}
                                    THEN 0 ELSE 1),
                   total_strength |-> FloatAdd(before.total_strength,
                                               ir[tf][key].strength)]

\* "avg_strength * 0.3" of score_rsi_multi_tf for a float total_strength: the
\* value in units of 1/ONE, and the sign of what is left below 2^-50, which
\* no later rounding to four places shows
MixedScore(total_strength, total) ==
    IF total = 0 \/ total_strength.m = 0 THEN [units |-> 0, residue |-> 0]
    ELSE IF Top(total_strength) <= -50
         THEN [units |-> 0, residue |-> Sign(total_strength.m)]
         ELSE [units |-> Div(Div(FloatUnits(total_strength), total) * 3, 10),
               residue |-> 0]

\* score_rsi_multi_tf with the timeframes iterated in the order given
score_rsi_in_order(ir, tfs) ==
    LET alignment == count_aligned_in_order(ir, tfs, "rsi")
        total == alignment.bullish + alignment.bearish + alignment.neutral
    IN  IF alignment.bullish = 4 THEN [units |-> Pct(100), residue |-> 0]
        ELSE IF alignment.bullish = 3 THEN [units |-> Pct(70), residue |-> 0]
        ELSE IF alignment.bullish = 2 /\ alignment.bearish = 0
             THEN [units |-> Pct(40), residue |-> 0]
        ELSE IF alignment.bearish = 4 THEN [units |-> -Pct(100), residue |-> 0]
        ELSE IF alignment.bearish = 3 THEN [units |-> -Pct(70), residue |-> 0]
        ELSE IF alignment.bearish = 2 /\ alignment.bullish = 0
             THEN [units |-> -Pct(40), residue |-> 0]
        ELSE MixedScore(alignment.total_strength, total)

\* calculate_final_score on an indicator_results that carries nothing but
\* "rsi", iterated in the order given, with no funding, open-interest or
\* long/short data: the other six component scores are 0, the composite is
\* rsi score * weight, and only the rsi entry of agreements can be 1.
ScoreOfRsi(rsi_score) ==
    [returned |-> TRUE,
     score |-> TierOf(Div(rsi_score.units * config.SCORING_WEIGHTS.rsi_multi_tf, 100),
                      config.SCORE_THRESHOLDS),
     label |-> SCORE_LABELS[TierOf(Div(rsi_score.units
                                       * config.SCORING_WEIGHTS.rsi_multi_tf, 100),
                                   config.SCORE_THRESHOLDS)],
     composite_score |->
         Round(Div(rsi_score.units * config.SCORING_WEIGHTS.rsi_multi_tf, 100),
               ONE \div 10000),
     confidence |->
         Round(Confidence(<<IF rsi_score.units # 0 \/ rsi_score.residue # 0
                            THEN 1 ELSE 0, 0, 0, 0, 0>>),
               ONE \div 100)]

calculate_final_score_in_order(ir, tfs) == ScoreOfRsi(score_rsi_in_order(ir, tfs))

\* An rsi entry with a float strength.
FloatRsi(sig, m, e) ==
    [present |-> TRUE,
     rsi |-> [present |-> TRUE, signal |-> sig, strength |-> Float(m, e)]]

-----------------------------------------------------------------------------
(* SpecOrder: the caller inserts the four timeframes into indicator_results *)
(* in some order, and calculate_final_score is called on the dictionary.    *)

InitOrder ==
    /\ DemarkIdle
    /\ pc = "insert"
    /\ indicator_results = [tf \in TIMEFRAMES |-> [present |-> FALSE]]
    /\ funding_data = [present |-> FALSE]
    /\ oi_data = [present |-> FALSE]
    /\ ls_ratio_data = [present |-> FALSE]
    /\ adx = [adx |-> 0, direction |-> "bearish"]
    /\ result = NoResult
    /\ config = ConfigModule
    /\ calls = 0
    /\ order = <<>>
    /\ IndicatorIdle

\* "indicator_results[tf] = ..." for a timeframe not yet inserted
Insert ==
    /\ pc = "insert"
    /\ \E tf \in TIMEFRAMES \ {order[i] : i \in 1..Len(order)} :
         \* the entries a timeframe may have: None, a bullish rsi of strength 1.0, a
         \* bearish one of -1.0, and neutral ones of strength 2^-60 and 0.5
         \E c \in
                 ({ [present |-> FALSE],
                    FloatRsi("bullish", 1, 0),
                    FloatRsi("bearish", -1, 0),
                    FloatRsi("neutral", 1, -60),
                    FloatRsi("neutral", 1, -1) }) :
            /\ indicator_results' = [indicator_results EXCEPT ![tf] = c]
            /\ order' = Append(order, tf)
    /\ pc' = IF Len(order') = Cardinality(TIMEFRAMES) THEN "ordered" ELSE "insert"
    /\ UNCHANGED <<funding_data, oi_data, ls_ratio_data, adx, result, config, calls>>
    /\ UNCHANGED demarkVars
    /\ UNCHANGED indicatorVars
    /\ UNCHANGED serviceVars

\* The call calculate_final_score(indicator_results, None, None, None).
ScoreInOrder ==
    /\ pc = "ordered"
    /\ result' = calculate_final_score_in_order(indicator_results, order)
    /\ pc' = "done"
    /\ UNCHANGED <<indicator_results, funding_data, oi_data, ls_ratio_data, adx,
                   config, calls, order>>
    /\ UNCHANGED demarkVars
    /\ UNCHANGED indicatorVars
    /\ UNCHANGED serviceVars

SpecOrder == InitOrder /\ [][Insert \/ ScoreInOrder]_vars

-----------------------------------------------------------------------------
(* indicators.py: calculate_rsi, calculate_ema, calculate_macd,             *)
(* calculate_bollinger_bands, calculate_relative_volume.                    *)
(*                                                                          *)
(* Prices and volumes are whole numbers; the values the functions derive    *)
(* from them are computed exactly, as fractions n/d in lowest terms, where  *)
(* the code computes them in floats.  A function returns Absent where the   *)
(* code returns None, and Raised where the code would divide by zero.       *)

RECURSIVE GCD(_, _)
GCD(a, b) == IF b = 0 THEN a ELSE GCD(b, a % b)

\* the fraction n/d in lowest terms, d > 0
Rat(n, d) ==
    LET g == GCD(Abs(n), Abs(d))
        s == IF d < 0 THEN -1 ELSE 1
    IN  [n |-> s * (n \div g), d |-> s * (d \div g)]

R(n) == [n |-> n, d |-> 1]

RatAdd(a, b) == Rat(a.n * b.d + b.n * a.d, a.d * b.d)
RatSub(a, b) == Rat(a.n * b.d - b.n * a.d, a.d * b.d)
RatMul(a, b) == Rat(a.n * b.n, a.d * b.d)
\* a / b; no value when b is 0
RatDiv(a, b) == CHOOSE q \in {Rat(a.n * b.d, a.d * b.n)} : b.n # 0
RatLess(a, b) == a.n * b.d < b.n * a.d

\* round(a, 2), in hundredths: to the nearest hundredth, ties to even
RoundHundredths(a) ==
    LET q == (a.n * 100) \div a.d
        r == (a.n * 100) % a.d
    IN  IF 2 * r < a.d THEN q
        ELSE IF 2 * r > a.d THEN q + 1
        ELSE IF q % 2 = 0 THEN q ELSE q + 1

\* what a function returns when a division by zero ends it
Raised == [present |-> FALSE, raised |-> "ZeroDivisionError"]

Value(v) == [present |-> TRUE, value |-> v]

\* the last n elements of s: s[-n:]
LastN(s, n) == SubSeq(s, Len(s) - n + 1, Len(s))

\* sum(s) of fractions: the running total from place n on.  (A loop that
\* carries a fraction binds each new value through a one-element domain, so
\* that it is a computed value before the next round uses it.)
RECURSIVE RatSumFrom(_, _, _)
RatSumFrom(total, s, n) ==
    IF n > Len(s) THEN total
    ELSE [t \in {RatAdd(total, s[n])} |-> RatSumFrom(t, s, n + 1)]
             [RatAdd(total, s[n])]

RatSum(s) == RatSumFrom(R(0), s, 1)

\* sum(s) of whole numbers
SumSeq(s) == RatSum([i \in 1..Len(s) |-> R(s[i])]).n

\* "changes = [prices[i] - prices[i-1] for i in range(1, len(prices))]"
Changes(prices) == [i \in 1..(Len(prices) - 1) |-> prices[i + 1] - prices[i]]

\* "rs = avg_gain / avg_loss; rsi = 100 - (100 / (1 + rs)); round(rsi, 2)",
\* in hundredths
RsiValue(avg_gain, avg_loss) ==
    IF avg_loss.n = 0 THEN Raised
    ELSE Value(RoundHundredths(
             RatSub(R(100),
                    RatDiv(R(100), RatAdd(R(1), RatDiv(avg_gain, avg_loss))))))

\* calculate_rsi averaging every change of the series, not the last period
calculate_rsi_AllChanges(prices, period) ==
    IF Len(prices) < period + 1 THEN Absent
    ELSE LET recent_changes == Changes(prices)
             gains == [i \in 1..Len(recent_changes) |->
                          IF recent_changes[i] > 0 THEN recent_changes[i] ELSE 0]
             losses == [i \in 1..Len(recent_changes) |->
                          IF recent_changes[i] < 0 THEN -recent_changes[i] ELSE 0]
         IN  IF SumSeq(losses) = 0 THEN Value(10000)
             ELSE RsiValue(Rat(SumSeq(gains), period), Rat(SumSeq(losses), period))

\* calculate_rsi; the value is in hundredths
calculate_rsi(prices, period) ==
    IF Len(prices) < period + 1 THEN Absent
    ELSE LET recent_changes == LastN(Changes(prices), period)
             gains == [i \in 1..period |->
                          IF recent_changes[i] > 0 THEN recent_changes[i] ELSE 0]
             losses == [i \in 1..period |->
                          IF recent_changes[i] < 0 THEN -recent_changes[i] ELSE 0]
             avg_gain == Rat(SumSeq(gains), period)
             avg_loss == Rat(SumSeq(losses), period)
         IN  IF avg_loss.n = 0 THEN Value(10000)
             ELSE RsiValue(avg_gain, avg_loss)

\* "ema = (price - ema) * multiplier + ema" for the prices from place n on
RECURSIVE EmaLoop(_, _, _, _)
EmaLoop(ema, prices, n, multiplier) ==
    IF n > Len(prices) THEN ema
    ELSE LET next == RatAdd(RatMul(RatSub(prices[n], ema), multiplier), ema)
         IN  [e \in {next} |-> EmaLoop(e, prices, n + 1, multiplier)][next]

\* calculate_ema on a series of fractions
calculate_ema(prices, period) ==
    IF Len(prices) < period THEN Absent
    ELSE Value(EmaLoop(RatDiv(RatSum(SubSeq(prices, 1, period)), R(period)),
                       prices, period + 1, Rat(2, period + 1)))

\* the same whole numbers as fractions
AsRats(prices) == [i \in 1..Len(prices) |-> R(prices[i])]

\* "if e12 and e26", "if signal_line": a float is true unless it is None or 0
Truthy(x) == x.present /\ x.value.n # 0

\* The loop "for i in range(26, len(prices))" from the prefix of n prices on:
\* the macd_values it appends.
RECURSIVE MacdValues(_, _)
MacdValues(prices, n) ==
    IF n > Len(prices) THEN <<>>
    ELSE LET e12 == calculate_ema(SubSeq(prices, 1, n), 12)
             e26 == calculate_ema(SubSeq(prices, 1, n), 26)
         IN  IF Truthy(e12) /\ Truthy(e26)
             THEN <<RatSub(e12.value, e26.value)>> \o MacdValues(prices, n + 1)
             ELSE MacdValues(prices, n + 1)

\* MacdRecord reporting bullish for a histogram of 0 as well
MacdRecord_BullishAtZero(macd_line, macd_values) ==
    IF Len(macd_values) < 9 THEN Absent
    ELSE LET signal_line == calculate_ema(macd_values, 9)
             histogram == IF Truthy(signal_line)
                          THEN RatSub(macd_line, signal_line.value)
                          ELSE R(0)
         IN  [present |-> TRUE,
              macd_line |-> macd_line,
              signal_line |-> signal_line.value,
              histogram |-> histogram,
              bullish |-> ~RatLess(histogram, R(0)),
              rising |-> /\ Len(macd_values) >= 2
                         /\ RatLess(macd_values[Len(macd_values) - 1],
                                    macd_values[Len(macd_values)]),
              macd_values |-> macd_values]

\* calculate_macd from macd_line and macd_values on
MacdRecord(macd_line, macd_values) ==
    IF Len(macd_values) < 9 THEN Absent
    ELSE LET signal_line == calculate_ema(macd_values, 9)
             histogram == IF Truthy(signal_line)
                          THEN RatSub(macd_line, signal_line.value)
                          ELSE R(0)
         IN  [present |-> TRUE,
              macd_line |-> macd_line,
              signal_line |-> signal_line.value,
              histogram |-> histogram,
              bullish |-> RatLess(R(0), histogram),
              rising |-> /\ Len(macd_values) >= 2
                         /\ RatLess(macd_values[Len(macd_values) - 1],
                                    macd_values[Len(macd_values)]),
              macd_values |-> macd_values]

\* calculate_macd on a series of whole prices; macd_values is the local list
calculate_macd(prices) ==
    IF Len(prices) < 35 THEN Absent
    ELSE LET ema_12 == calculate_ema(AsRats(prices), 12)
             ema_26 == calculate_ema(AsRats(prices), 26)
         IN  IF ~ema_12.present \/ ~ema_26.present THEN Absent
             ELSE MacdRecord(RatSub(ema_12.value, ema_26.value),
                             MacdValues(AsRats(prices), 27))

\* "percent_b = (current_price - lower) / (upper - lower)", where
\* upper - lower = 4 * std and std is the square root of the variance: the
\* quotient is 1/2 + offset / (4 * sqrt(variance)), kept as its two parts
PercentB(current_price, sma, variance) ==
    IF variance.n = 0 THEN Raised
    ELSE [present |-> TRUE, offset |-> RatSub(current_price, sma),
          variance |-> variance]

\* calculate_bollinger_bands without the "if upper != lower" test
calculate_bollinger_bands_NoFlatBandTest(prices, period) ==
    IF Len(prices) < period THEN Absent
    ELSE LET recent == LastN(prices, period)
             sma == Rat(SumSeq(recent), period)
             variance ==
                 RatDiv(RatSum([i \in 1..period |->
                                   RatMul(RatSub(R(recent[i]), sma),
                                          RatSub(R(recent[i]), sma))]),
                        R(period))
             percent_b == PercentB(R(prices[Len(prices)]), sma, variance)
         IN  IF percent_b = Raised THEN Raised
             ELSE [present |-> TRUE, middle |-> sma, variance |-> variance,
                   percent_b |-> percent_b,
                   bandwidth_zero |-> ~(sma.n > 0) \/ variance.n = 0]

\* calculate_bollinger_bands with std_dev = 2.0.  upper and lower are
\* middle +- 2 * sqrt(variance), so "upper != lower" is "variance # 0";
\* percent_b is the fraction 1/2 when the bands coincide.
calculate_bollinger_bands(prices, period) ==
    IF Len(prices) < period THEN Absent
    ELSE LET recent == LastN(prices, period)
             sma == Rat(SumSeq(recent), period)
             variance ==
                 RatDiv(RatSum([i \in 1..period |->
                                   RatMul(RatSub(R(recent[i]), sma),
                                          RatSub(R(recent[i]), sma))]),
                        R(period))
             percent_b == IF variance.n # 0
                          THEN PercentB(R(prices[Len(prices)]), sma, variance)
                          ELSE Value(Rat(1, 2))
         IN  IF percent_b = Raised THEN Raised
             ELSE [present |-> TRUE, middle |-> sma, variance |-> variance,
                   percent_b |-> percent_b,
                   bandwidth_zero |-> ~(sma.n > 0) \/ variance.n = 0]

\* VolumeRatio with a ratio of exactly 1.5 read as high
VolumeRatio_HighAtThreshold(current_volume, avg_volume) ==
    IF avg_volume.n = 0 THEN Raised
    ELSE LET ratio == RatDiv(R(current_volume), avg_volume)
         IN  [present |-> TRUE,
              current |-> current_volume,
              average |-> avg_volume,
              ratio |-> RoundHundredths(ratio),
              signal |-> IF ~RatLess(ratio, Rat(3, 2)) THEN "high"
                         ELSE IF RatLess(ratio, Rat(1, 2)) THEN "low"
                         ELSE "normal"]

\* "ratio = current_volume / avg_volume" and the signal read off it; ratio is
\* round(ratio, 2), in hundredths
VolumeRatio(current_volume, avg_volume) ==
    IF avg_volume.n = 0 THEN Raised
    ELSE LET ratio == RatDiv(R(current_volume), avg_volume)
         IN  [present |-> TRUE,
              current |-> current_volume,
              average |-> avg_volume,
              ratio |-> RoundHundredths(ratio),
              signal |-> IF RatLess(Rat(3, 2), ratio) THEN "high"
                         ELSE IF RatLess(ratio, Rat(1, 2)) THEN "low"
                         ELSE "normal"]

\* calculate_relative_volume
calculate_relative_volume(vols, period) ==
    IF Len(vols) < period + 1 THEN Absent
    ELSE LET current_volume == vols[Len(vols)]
             avg_volume == Rat(SumSeq(SubSeq(vols, Len(vols) - period,
                                             Len(vols) - 1)), period)
         IN  IF avg_volume.n = 0 THEN Absent
             ELSE VolumeRatio(current_volume, avg_volume)

\* calculate_adx: the lists of the first loop, at 0-based place i >= 1
TrueRange(hi, lo, cs, i) ==
    Max(hi[i + 1] - lo[i + 1],
        Max(Abs(hi[i + 1] - cs[i]), Abs(lo[i + 1] - cs[i])))

PlusDM(hi, lo, i) ==
    LET up_move == hi[i + 1] - hi[i]
        down_move == lo[i] - lo[i + 1]
    IN  IF up_move > down_move /\ up_move > 0 THEN up_move ELSE 0

MinusDM(hi, lo, i) ==
    LET up_move == hi[i + 1] - hi[i]
        down_move == lo[i] - lo[i + 1]
    IN  IF down_move > up_move /\ down_move > 0 THEN down_move ELSE 0

\* wilders_smooth: the smoothed list grown from place n of values on
RECURSIVE WildersLoop(_, _, _, _)
WildersLoop(smoothed, values, n, period) ==
    IF n > Len(values) THEN smoothed
    ELSE LET next == Append(smoothed,
                            RatAdd(RatSub(smoothed[Len(smoothed)],
                                          RatDiv(smoothed[Len(smoothed)], R(period))),
                                   R(values[n])))
         IN  [s \in {next} |-> WildersLoop(s, values, n + 1, period)][next]

wilders_smooth(values, period) ==
    WildersLoop(<<R(SumSeq(SubSeq(values, 1, period)))>>, values, period + 1, period)

\* "(smoothed_plus_dm[i] / smoothed_tr[i]) * 100"
DirectionalIndex(smoothed_dm, smoothed_tr) ==
    RatMul(RatDiv(smoothed_dm, smoothed_tr), R(100))

\* the loop that fills dx_list, from place n of the smoothed lists on
RECURSIVE DxList(_, _, _, _)
DxList(smoothed_tr, smoothed_plus_dm, smoothed_minus_dm, n) ==
    IF n > Len(smoothed_tr) THEN <<>>
    ELSE IF smoothed_tr[n].n = 0
         THEN DxList(smoothed_tr, smoothed_plus_dm, smoothed_minus_dm, n + 1)
         ELSE LET pdi == DirectionalIndex(smoothed_plus_dm[n], smoothed_tr[n])
                  mdi == DirectionalIndex(smoothed_minus_dm[n], smoothed_tr[n])
                  di_s == RatAdd(pdi, mdi)
              IN  (IF RatLess(R(0), di_s)
                   THEN <<RatMul(RatDiv(IF RatLess(pdi, mdi) THEN RatSub(mdi, pdi)
                                         ELSE RatSub(pdi, mdi),
                                         di_s),
                                  R(100))>>
                   ELSE <<>>)
                  \o DxList(smoothed_tr, smoothed_plus_dm, smoothed_minus_dm, n + 1)

\* AdxRecord with adx the mean of every DX value, not of the last period
AdxRecord_MeanOfAllDx(smoothed_tr, smoothed_plus_dm, smoothed_minus_dm, period) ==
    IF smoothed_tr[Len(smoothed_tr)].n = 0 THEN Absent
    ELSE LET plus_di == DirectionalIndex(smoothed_plus_dm[Len(smoothed_tr)],
                                         smoothed_tr[Len(smoothed_tr)])
             minus_di == DirectionalIndex(smoothed_minus_dm[Len(smoothed_tr)],
                                          smoothed_tr[Len(smoothed_tr)])
             dx_list == DxList(smoothed_tr, smoothed_plus_dm, smoothed_minus_dm, 1)
         IN  IF RatAdd(plus_di, minus_di).n = 0 THEN Absent
             ELSE IF Len(dx_list) < period THEN Absent
             ELSE LET adx_value == RatDiv(RatSum(dx_list), R(Len(dx_list)))
                  IN  [present |-> TRUE,
                       adx |-> RoundHundredths(adx_value),
                       plus_di |-> RoundHundredths(plus_di),
                       minus_di |-> RoundHundredths(minus_di),
                       trending |-> RatLess(R(25), adx_value),
                       strong_trend |-> RatLess(R(50), adx_value),
                       direction |-> IF RatLess(minus_di, plus_di)
                                     THEN "bullish" ELSE "bearish"]

\* calculate_adx from the smoothed lists on; adx, plus_di and minus_di are
\* rounded to hundredths
AdxRecord(smoothed_tr, smoothed_plus_dm, smoothed_minus_dm, period) ==
    IF smoothed_tr[Len(smoothed_tr)].n = 0 THEN Absent
    ELSE LET plus_di == DirectionalIndex(smoothed_plus_dm[Len(smoothed_tr)],
                                         smoothed_tr[Len(smoothed_tr)])
             minus_di == DirectionalIndex(smoothed_minus_dm[Len(smoothed_tr)],
                                          smoothed_tr[Len(smoothed_tr)])
             dx_list == DxList(smoothed_tr, smoothed_plus_dm, smoothed_minus_dm, 1)
         IN  IF RatAdd(plus_di, minus_di).n = 0 THEN Absent
             ELSE IF Len(dx_list) < period THEN Absent
             ELSE LET adx_value == RatDiv(RatSum(LastN(dx_list, period)), R(period))
                  IN  [present |-> TRUE,
                       adx |-> RoundHundredths(adx_value),
                       plus_di |-> RoundHundredths(plus_di),
                       minus_di |-> RoundHundredths(minus_di),
                       trending |-> RatLess(R(25), adx_value),
                       strong_trend |-> RatLess(R(50), adx_value),
                       direction |-> IF RatLess(minus_di, plus_di)
                                     THEN "bullish" ELSE "bearish"]

\* calculate_adx
calculate_adx(hi, lo, cs, period) ==
    IF Len(hi) < period + 1 \/ Len(lo) < period + 1 \/ Len(cs) < period + 1
    THEN Absent
    ELSE LET tr_list == [i \in 1..(Len(hi) - 1) |-> TrueRange(hi, lo, cs, i)]
             plus_dm_list == [i \in 1..(Len(hi) - 1) |-> PlusDM(hi, lo, i)]
             minus_dm_list == [i \in 1..(Len(hi) - 1) |-> MinusDM(hi, lo, i)]
         IN  IF Len(tr_list) < period THEN Absent
             ELSE AdxRecord(wilders_smooth(tr_list, period),
                            wilders_smooth(plus_dm_list, period),
                            wilders_smooth(minus_dm_list, period), period)

-----------------------------------------------------------------------------
(* SpecIndicators: the indicator functions re-run on a growing series of    *)
(* candles.  The series are the ones on which the exact values stay small:  *)
(* a constant step from the first candle on, with at most one last candle   *)
(* off the line, and a constant volume with at most one last volume off it. *)

StartPrices == {0, 100}
Steps == {-2, 0, 2}
FinalDeltas == {-3, 1, 3}

\* every change of the series is the same
Regular(cs) == \A i \in 3..Len(cs) : cs[i] - cs[i - 1] = cs[2] - cs[1]

\* every volume of the series is the same
Flat(vols) == \A i \in 2..Len(vols) : vols[i] = vols[1]

\* the closes the next candle may have
NextCandleCloses(cs) ==
    IF cs = <<>> THEN StartPrices
    ELSE {c \in {cs[Len(cs)] + d : d \in Steps \cup FinalDeltas} :
             /\ c >= 0
             /\ Len(cs) >= 2 /\ c - cs[Len(cs)] \in Steps
                    => c - cs[Len(cs)] = cs[2] - cs[1]
             /\ Len(cs) < 2 => c - cs[Len(cs)] \in Steps}

\* high - close = close - low, the same for every candle of a series
NextCandleWicks(hi, cs, c) ==
    IF cs = <<>> THEN (IF c = 0 THEN {0} ELSE {0, 2})
    ELSE {hi[1] - cs[1]}

\* no series yet: nothing fetched, nothing computed
InitSeries ==
    /\ DemarkIdle
    /\ ScoreIdle

\* what the indicator functions return for the candles, each called with its
\* default period
IndicatorsOf(hi, lo, cs, vols) ==
    [computed |-> TRUE,
     rsi |-> calculate_rsi(cs, 14),
     ema_12 |-> calculate_ema(AsRats(cs), 12),
     ema_26 |-> calculate_ema(AsRats(cs), 26),
     macd |-> calculate_macd(cs),
     bollinger |-> calculate_bollinger_bands(cs, 20),
     adx |-> calculate_adx(hi, lo, cs, 14),
     volume |-> calculate_relative_volume(vols, 7)]

\* A candle is added to the series and every indicator is computed afresh.
AddCandle ==
    /\ Len(closes) < MaxCandles
    /\ Regular(closes)
    /\ Flat(volumes)
    /\ \E c \in NextCandleCloses(closes) :
         \E w \in NextCandleWicks(highs, closes, c) :
           \* the volumes the next candle may have
           \E v \in (IF volumes = <<>> THEN {0, 300}
                     ELSE {volumes[1]} \cup {0, 120, 150, 300, 450, 451, 480}) :
             /\ closes' = Append(closes, c)
             /\ highs' = Append(highs, c + w)
             /\ lows' = Append(lows, c - w)
             /\ volumes' = Append(volumes, v)
             /\ indicators' = IndicatorsOf(highs', lows', closes', volumes')
    /\ UNCHANGED <<sell_count, buy_count, demark, tracker, tracked>>
    /\ UNCHANGED <<analysis, asset>>
    /\ UNCHANGED scoreVars
    /\ UNCHANGED orderVars
    /\ UNCHANGED serviceVars

SpecIndicators == InitSeries /\ [][AddCandle]_vars

-----------------------------------------------------------------------------
(* SpecRsi: calculate_rsi re-run on a growing series of closes whose change *)
(* turns at most MaxTurns times, so that the changes older than the last    *)
(* period ones differ from the recent ones.                                 *)

\* how many times the change of the series differs from the change before it
Turns(cs) ==
    Cardinality({i \in 3..Len(cs) : cs[i] - cs[i - 1] # cs[i - 1] - cs[i - 2]})

\* the closes the next bar may have
NextRsiCloses(cs) ==
    IF cs = <<>> THEN {2 * BasePrice}
    ELSE {c \in {cs[Len(cs)] + d : d \in {-1, 1, 2}} :
             Turns(Append(cs, c)) <= MaxTurns}

\* A close is added to the series and calculate_rsi is called on it.
AddClose ==
    /\ Len(closes) < MaxRsiBars
    /\ \E c \in NextRsiCloses(closes) :
         /\ closes' = Append(closes, c)
         /\ indicators' = [computed |-> TRUE, rsi |-> calculate_rsi(closes', 14)]
    /\ UNCHANGED <<sell_count, buy_count, demark, tracker, tracked>>
    /\ UNCHANGED <<highs, lows, volumes, analysis, asset>>
    /\ UNCHANGED scoreVars
    /\ UNCHANGED orderVars
    /\ UNCHANGED serviceVars

SpecRsi == InitSeries /\ [][AddClose]_vars

-----------------------------------------------------------------------------
(* SpecMacd: calculate_macd re-run on a growing series of closes that start *)
(* with 26 equal prices, 0 among them, and go on with prices that keep both *)
(* moving averages whole numbers, so that an average of exactly 0 occurs    *)
(* and every value stays exact.                                             *)

\* The prices that keep both moving averages whole: an average moves by
\* (price - ema) * 2 / (period + 1), a whole number when price - ema is a
\* multiple of period + 1.
WholePrices(ema_12, ema_26) ==
    {c \in 0..(2 * 13 * 27 - 1) :
        /\ (c - ema_12.value.n) % (12 + 1) = 0
        /\ (c - ema_26.value.n) % (26 + 1) = 0}

\* the closes the next bar may have
NextMacdCloses(cs) ==
    IF cs = <<>> THEN {0, 13 * 27}
    ELSE IF Len(cs) < 26 THEN {cs[1]}
    ELSE UNION {WholePrices(e[1], e[2]) :
                   e \in {<<calculate_ema(AsRats(cs), 12),
                            calculate_ema(AsRats(cs), 26)>>}}

\* A close is added to the series and calculate_macd is called on it.
AddPrice ==
    /\ Len(closes) < MaxMacdBars
    /\ \E c \in NextMacdCloses(closes) :
         /\ closes' = Append(closes, c)
         /\ indicators' = [computed |-> TRUE, macd |-> calculate_macd(closes')]
    /\ UNCHANGED <<sell_count, buy_count, demark, tracker, tracked>>
    /\ UNCHANGED <<highs, lows, volumes, analysis, asset>>
    /\ UNCHANGED scoreVars
    /\ UNCHANGED orderVars
    /\ UNCHANGED serviceVars

SpecMacd == InitSeries /\ [][AddPrice]_vars

-----------------------------------------------------------------------------
(* indicators.py: calculate_trend, calculate_momentum, calculate_volatility *)
(* and analyze_ohlc_data; signal_generator.py: process_single_asset up to   *)
(* its call of calculate_signal_score.                                      *)

\* "bullish_count += 1" for each of the four tests that holds
TrendRecord(ema_9, ema_21, ema_50, current) ==
    LET bullish_count ==
            (IF RatLess(ema_21, ema_9) THEN 1 ELSE 0)
            + (IF RatLess(ema_50, ema_21) THEN 1 ELSE 0)
            + (IF RatLess(ema_50, current) THEN 1 ELSE 0)
            + (IF RatLess(ema_9, current) THEN 1 ELSE 0)
    IN  [trend |-> IF bullish_count >= 3 THEN "bullish"
                   ELSE IF bullish_count <= 1 THEN "bearish"
                   ELSE "neutral",
         strength |-> IF bullish_count >= 3 THEN Rat(bullish_count, 4)
                      ELSE IF bullish_count <= 1 THEN Rat(4 - bullish_count, 4)
                      ELSE Rat(1, 2),
         ema_9 |-> ema_9,
         ema_21 |-> ema_21,
         ema_50 |-> ema_50,
         price_vs_ema50 |-> IF RatLess(ema_50, current) THEN "above" ELSE "below"]

\* calculate_trend
calculate_trend(prices) ==
    IF Len(prices) < 50 THEN [trend |-> "neutral", strength |-> R(0)]
    ELSE LET ema_9 == calculate_ema(AsRats(prices), 9)
             ema_21 == calculate_ema(AsRats(prices), 21)
             ema_50 == calculate_ema(AsRats(prices), 50)
         IN  IF ~(Truthy(ema_9) /\ Truthy(ema_21) /\ Truthy(ema_50))
             THEN [trend |-> "neutral", strength |-> R(0)]
             ELSE TrendRecord(ema_9.value, ema_21.value, ema_50.value,
                              R(prices[Len(prices)]))

\* calculate_momentum; roc is round(roc, 2), in hundredths
calculate_momentum(prices) ==
    IF Len(prices) < 14 THEN [momentum |-> 0, roc |-> 0]
    ELSE LET last == prices[Len(prices)]
             base == prices[Len(prices) - 13]
             roc == IF base # 0 THEN RatMul(Rat(last - base, base), R(100))
                    ELSE R(0)
         IN  [momentum |-> last - base,
              roc |-> RoundHundredths(roc),
              bullish |-> RatLess(R(0), roc)]

\* "abs(recent[i] - recent[i-1]) / recent[i-1] * 100 for i in
\* range(1, len(recent)) if recent[i-1] != 0"
PercentChanges(recent) ==
    LET places == SelectSeq([i \in 1..(Len(recent) - 1) |-> i],
                            LAMBDA i : recent[i] # 0)
    IN  [k \in 1..Len(places) |->
            RatMul(Rat(Abs(recent[places[k] + 1] - recent[places[k]]),
                       recent[places[k]]),
                   R(100))]

\* calculate_volatility; the value is in hundredths
calculate_volatility(prices, period) ==
    IF Len(prices) < period THEN 0
    ELSE LET recent == LastN(prices, period)
             changes == PercentChanges(recent)
         IN  IF SumSeq(recent) = 0 THEN 0
             ELSE IF changes = <<>> THEN 0
             ELSE RoundHundredths(RatDiv(RatSum(changes), R(Len(changes))))

\* the keys of the dictionary analyze_ohlc_data returns
AnalysisKeys ==
    {"rsi", "macd", "bollinger", "trend", "momentum", "volatility", "adx",
     "demark", "price"}

\* the dictionary {}
EmptyDict == <<>>

\* analyze_ohlc_data without the "len(ohlc) < 50" return
analyze_ohlc_data_NoLengthTest(hi, lo, cs) ==
    [rsi |-> calculate_rsi(cs, 14),
     macd |-> calculate_macd(cs),
     bollinger |-> calculate_bollinger_bands(cs, 20),
     trend |-> calculate_trend(cs),
     momentum |-> calculate_momentum(cs),
     volatility |-> calculate_volatility(cs, 14),
     adx |-> calculate_adx(hi, lo, cs, 14),
     demark |-> calculate_demark(cs),
     price |-> IF cs # <<>> THEN cs[Len(cs)] ELSE 0]

\* analyze_ohlc_data on the candles whose highs, lows and closes are given
analyze_ohlc_data(hi, lo, cs) ==
    IF cs = <<>> \/ Len(cs) < 50 THEN EmptyDict
    ELSE [rsi |-> calculate_rsi(cs, 14),
          macd |-> calculate_macd(cs),
          bollinger |-> calculate_bollinger_bands(cs, 20),
          trend |-> calculate_trend(cs),
          momentum |-> calculate_momentum(cs),
          volatility |-> calculate_volatility(cs, 14),
          adx |-> calculate_adx(hi, lo, cs, 14),
          demark |-> calculate_demark(cs),
          price |-> cs[Len(cs)]]

\* "if volumes and len(volumes) > 7: analysis['volume'] = ..."
WithVolume(dict, vols) ==
    IF vols # <<>> /\ Len(vols) > 7
    THEN [k \in DOMAIN dict \cup {"volume"} |->
             IF k = "volume" THEN calculate_relative_volume(vols, 7) ELSE dict[k]]
    ELSE dict

-----------------------------------------------------------------------------
(* SpecPipeline: the OHLC data of an asset grows candle by candle, flat but *)
(* for at most one last candle; at any length analyze_ohlc_data may be      *)
(* called on it, or process_single_asset may start.                         *)

\* the closes the next candle may have
NextOhlcCloses(cs) ==
    IF cs = <<>> THEN StartPrices
    ELSE {cs[Len(cs)]} \cup {c \in {cs[Len(cs)] + d : d \in FinalDeltas} : c >= 0}

\* The exchange has one more candle for the asset.
FetchCandle ==
    /\ asset.pc = "idle"
    /\ Len(closes) < MaxOhlc
    /\ Flat(closes)
    /\ \E c \in NextOhlcCloses(closes) :
         \E w \in NextCandleWicks(highs, closes, c) :
             /\ closes' = Append(closes, c)
             /\ highs' = Append(highs, c + w)
             /\ lows' = Append(lows, c - w)
    /\ UNCHANGED <<sell_count, buy_count, demark, tracker, tracked>>
    /\ UNCHANGED <<volumes, indicators, analysis, asset>>
    /\ UNCHANGED scoreVars
    /\ UNCHANGED orderVars
    /\ UNCHANGED serviceVars

\* analyze_ohlc_data is called on the candles.
AnalyzeOhlc ==
    /\ asset.pc = "idle"
    /\ analysis' = [returned |-> TRUE, value |-> analyze_ohlc_data(highs, lows, closes)]
    /\ asset' = [pc |-> "analyzed"]
    /\ UNCHANGED demarkVars
    /\ UNCHANGED <<highs, lows, volumes, indicators>>
    /\ UNCHANGED scoreVars
    /\ UNCHANGED orderVars
    /\ UNCHANGED serviceVars

\* process_single_asset up to the return of get_ohlc_for_asset and the test
\* of what it gave.
GetOhlc ==
    /\ asset.pc = "idle"
    /\ asset' = IF closes = <<>> \/ Len(closes) < 50
                THEN [pc |-> "returned", result |-> Absent]
                ELSE [pc |-> "chart"]
    /\ UNCHANGED demarkVars
    /\ UNCHANGED <<highs, lows, volumes, indicators, analysis>>
    /\ UNCHANGED scoreVars
    /\ UNCHANGED orderVars
    /\ UNCHANGED serviceVars

\* process_single_asset from the return of get_market_chart to the call of
\* calculate_signal_score.
GetChart ==
    /\ asset.pc = "chart"
    \* what get_market_chart may give as total_volumes
    /\ \E v \in
            ({<<>>,
              [i \in 1..7 |-> 10],
              [i \in 1..8 |-> 10],
              [i \in 1..8 |-> IF i = 8 THEN 16 ELSE 0],
              [i \in 1..8 |-> IF i = 8 THEN 16 ELSE 10]}) :
         /\ volumes' = v
         /\ analysis' = [returned |-> TRUE,
                         value |-> WithVolume(analyze_ohlc_data(highs, lows, closes), v)]
    /\ asset' = IF analyze_ohlc_data(highs, lows, closes) = EmptyDict
                THEN [pc |-> "returned", result |-> Absent]
                ELSE [pc |-> "scoring"]
    /\ UNCHANGED demarkVars
    /\ UNCHANGED <<highs, lows, indicators>>
    /\ UNCHANGED scoreVars
    /\ UNCHANGED orderVars
    /\ UNCHANGED serviceVars

SpecPipeline == InitSeries /\ [][FetchCandle \/ AnalyzeOhlc \/ GetOhlc \/ GetChart]_vars

-----------------------------------------------------------------------------
(* SpecSentiment: get_fear_greed_signal of fear_greed_client.py is called   *)
(* on index values, one call after another.                                 *)

\* the largest Fear & Greed index value handed to get_fear_greed_signal
MaxIndex == 100

\* get_fear_greed_signal with the Fear band ending at 35 instead of 40
get_fear_greed_signal_FearTo35(value) ==
    IF value <= 20 THEN Pct(30)
    ELSE IF value <= 35 THEN Pct(15)
    ELSE IF value <= 60 THEN 0
    ELSE IF value <= 80 THEN -Pct(15)
    ELSE -Pct(30)

\* get_fear_greed_signal, in units of 1/ONE
get_fear_greed_signal(value) ==
    IF value <= 20 THEN Pct(30)
    ELSE IF value <= 40 THEN Pct(15)
    ELSE IF value <= 60 THEN 0
    ELSE IF value <= 80 THEN -Pct(15)
    ELSE -Pct(30)

\* get_fear_greed_signal is called on an index value.
GetFearGreedSignal ==
    /\ \E value \in 0..MaxIndex :
         sentiment' = [called |-> TRUE, value |-> value,
                       signal |-> get_fear_greed_signal(value)]
    /\ UNCHANGED demarkVars
    /\ UNCHANGED scoreVars
    /\ UNCHANGED orderVars
    /\ UNCHANGED indicatorVars
    /\ UNCHANGED <<fg_client, fg_call>>
    /\ UNCHANGED <<conversion, now, generator, response>>
    /\ UNCHANGED <<api_cache, refreshing, completed, request>>

SpecSentiment == InitSeries /\ [][GetFearGreedSignal]_vars

-----------------------------------------------------------------------------
(* SpecThresholds: the conversion of a composite to a 7-tier score in       *)
(* calculate_final_score, applied to composites of whole hundredths.        *)

\* the largest composite converted, in hundredths
MaxComposite == 100

\* "Convert composite (-1 to 1) to 7-tier score (-3 to 3)"
ConvertComposite ==
    /\ \E c \in -MaxComposite..MaxComposite :
         conversion' = [called |-> TRUE, composite |-> Pct(c),
                        score |-> TierOf(Pct(c), config.SCORE_THRESHOLDS)]
    /\ UNCHANGED demarkVars
    /\ UNCHANGED scoreVars
    /\ UNCHANGED orderVars
    /\ UNCHANGED indicatorVars
    /\ UNCHANGED <<fg_client, fg_call>>
    /\ UNCHANGED <<sentiment, now, generator, response>>
    /\ UNCHANGED <<api_cache, refreshing, completed, request>>

SpecThresholds == InitSeries /\ [][ConvertComposite]_vars

-----------------------------------------------------------------------------
(* SpecGenerate: generate_all_signals of signal_generator.py is called on   *)
(* one SignalGenerator, call after call.  The assets are reduced to their   *)
(* symbol, score and composite_score, the composite_score in hundredths.    *)

\* What process_single_asset may return for a symbol: None, or a result whose
\* score is the tier of its composite, one of composites.
AssetResults(symbol, composites) ==
    {Absent} \cup
    {[present |-> TRUE, symbol |-> symbol,
      score |-> TierOf(Pct(c), SCORE_THRESHOLDS), composite_score |-> c] :
         c \in composites}

\* What get_all_market_data may return, each symbol with what
\* process_single_asset will make of it: nothing, or the configured symbols in
\* the order of ASSETS.  Every key is a key of ASSETS, so the "continue" of
\* the loop is never taken.
MarketChoices ==
    {<<>>} \cup
    {<<[symbol |-> "BTC", result |-> b], [symbol |-> "ETH", result |-> e],
       [symbol |-> "SOL", result |-> l]>> :
         b \in AssetResults("BTC", {-70, -40, -20, 0, 20, 40, 50, 70}),
         e \in AssetResults("ETH", {-70, -40, -20, 0, 20, 40, 50, 70}),
         l \in AssetResults("SOL", {40, 50})}

RECURSIVE sort(_)

\* the assets left in the order of market_data
sort_OrderKept(assets) == assets

\* assets.sort(key=lambda x: (-x["score"], -x["composite_score"])): a stable
\* sort, so x goes before the later assets of equal key
sort(assets) ==
    IF assets = <<>> THEN <<>>
    ELSE LET x == Head(assets)
             rest == sort(Tail(assets))
             k == Cardinality({i \in DOMAIN rest :
                      \/ rest[i].score > x.score
                      \/ /\ rest[i].score = x.score
                         /\ rest[i].composite_score > x.composite_score})
         IN  SubSeq(rest, 1, k) \o <<x>> \o SubSeq(rest, k + 1, Len(rest))

\* "Calculate summary"
Summary(assets) ==
    [bullish |-> Cardinality({i \in DOMAIN assets : assets[i].score > 0}),
     bearish |-> Cardinality({i \in DOMAIN assets : assets[i].score < 0}),
     neutral |-> Cardinality({i \in DOMAIN assets : assets[i].score = 0}),
     strong_signals |-> Cardinality({i \in DOMAIN assets : Abs(assets[i].score) >= 2}),
     by_score |-> [t \in -3..3 |->
                      Cardinality({i \in DOMAIN assets : assets[i].score = t})]]

\* _empty_response(fear_greed) at the time utcnow
EmptyResponse(fear_greed, utcnow) ==
    [generated_at |-> utcnow,
     total_assets |-> 0,
     fear_greed |-> IF fear_greed = <<>> THEN [value |-> 50] ELSE fear_greed,
     summary |-> Summary(<<>>),
     assets |-> <<>>]

\* generate_all_signals on the generator gen at the time utcnow: fear_greed is
\* what the client gives, market what get_all_market_data gives, fault the
\* call that raises ("fetch": get_all_market_data, "save": save_signals,
\* "none": no call).  The value is the return value and the generator as the
\* call leaves it.
generate_all_signals(gen, fear_greed, market, fault, utcnow) ==
    LET fetched == [gen EXCEPT !.fear_greed_cache = fear_greed]
        found == SelectSeq(market, LAMBDA m : m.result.present)
        assets == sort([i \in DOMAIN found |->
                           [symbol |-> found[i].result.symbol,
                            score |-> found[i].result.score,
                            composite_score |-> found[i].result.composite_score]])
        generated == [generated_at |-> utcnow,
                      total_assets |-> Len(assets),
                      fear_greed |-> fear_greed,
                      summary |-> Summary(assets),
                      assets |-> assets]
        cached == [fetched EXCEPT !.signals_cache = generated,
                                  !.last_update = <<utcnow>>]
    IN  IF fault = "fetch"
        THEN [returned |-> EmptyResponse(fetched.fear_greed_cache, utcnow),
              generator |-> fetched]
        ELSE IF market = <<>>
        THEN [returned |-> EmptyResponse(fear_greed, utcnow), generator |-> fetched]
        ELSE IF fault = "save"
        THEN [returned |-> EmptyResponse(cached.fear_greed_cache, utcnow),
              generator |-> cached]
        ELSE [returned |-> generated, generator |-> cached]

\* generate_all_signals is called on the generator.
GenerateAllSignals ==
    \* what fear_greed_client.get_fear_greed may return
    /\ \E fear_greed \in {[value |-> 25], [value |-> 50]} :
         \E call \in {generate_all_signals(generator, fear_greed, <<>>, "fetch", now)}
                 \cup {generate_all_signals(generator, fear_greed, market, fault, now) :
                          market \in MarketChoices, fault \in {"none", "save"}} :
             /\ generator' = call.generator
             /\ response' = [returned |-> TRUE, value |-> call.returned]
    /\ UNCHANGED demarkVars
    /\ UNCHANGED scoreVars
    /\ UNCHANGED orderVars
    /\ UNCHANGED indicatorVars
    /\ UNCHANGED <<fg_client, fg_call>>
    /\ UNCHANGED <<sentiment, conversion, now>>
    /\ UNCHANGED <<api_cache, refreshing, completed, request>>

SpecGenerate == InitSeries /\ [][GenerateAllSignals]_vars

-----------------------------------------------------------------------------
(* SpecCache: the API server's cache.  Time passes in ticks; clients call   *)
(* get_cached_signals and /refresh, the periodic task wakes up, and every   *)
(* refresh_signals call in progress ends at some later step, in any order.  *)

\* config.py: CACHE_DURATION_SECONDS
CACHE_DURATION_SECONDS == 3600

\* the seconds in one tick of the clock
TickSeconds == 900

\* the last tick of the clock
MaxTicks == 5

\* the most refresh_signals calls in progress at once
MaxRefreshes == 2

\* Time passes.
Tick ==
    /\ now < MaxTicks
    /\ now' = now + 1
    /\ UNCHANGED <<api_cache, refreshing, completed, request>>
    /\ UNCHANGED demarkVars
    /\ UNCHANGED scoreVars
    /\ UNCHANGED orderVars
    /\ UNCHANGED indicatorVars
    /\ UNCHANGED <<fg_client, fg_call>>
    /\ UNCHANGED <<sentiment, conversion, generator, response>>

\* the tests of get_cached_signals with a cache of exactly
\* CACHE_DURATION_SECONDS counted as stale
MustRefresh_AtDuration(force_refresh, utcnow) ==
    \/ force_refresh
    \/ api_cache.signals = Absent
    \/ /\ api_cache.last_update # <<>>
       /\ (utcnow - api_cache.last_update[1]) * TickSeconds >= CACHE_DURATION_SECONDS

\* the tests of get_cached_signals: forced, no signals cached, or "cache is
\* stale"
MustRefresh(force_refresh, utcnow) ==
    \/ force_refresh
    \/ api_cache.signals = Absent
    \/ /\ api_cache.last_update # <<>>
       /\ (utcnow - api_cache.last_update[1]) * TickSeconds > CACHE_DURATION_SECONDS

\* get_cached_signals(force_refresh) up to its return or to the await of
\* refresh_signals, which then is in progress.
GetCachedSignals ==
    /\ \E force_refresh \in BOOLEAN :
         IF MustRefresh(force_refresh, now)
         THEN /\ Len(refreshing) < MaxRefreshes
              /\ refreshing' = Append(refreshing, [overtaken |-> FALSE])
              /\ request' = [kind |-> "get_cached_signals", force_refresh |-> force_refresh,
                             returned |-> FALSE]
         ELSE /\ refreshing' = refreshing
              /\ request' = [kind |-> "get_cached_signals", force_refresh |-> force_refresh,
                             returned |-> TRUE, value |-> api_cache.signals]
    /\ UNCHANGED <<now, api_cache, completed>>
    /\ UNCHANGED demarkVars
    /\ UNCHANGED scoreVars
    /\ UNCHANGED orderVars
    /\ UNCHANGED indicatorVars
    /\ UNCHANGED <<fg_client, fg_call>>
    /\ UNCHANGED <<sentiment, conversion, generator, response>>

\* POST /refresh, or periodic_refresh after its sleep, calls refresh_signals,
\* which then is in progress.
RefreshSignals ==
    /\ Len(refreshing) < MaxRefreshes
    /\ \E kind \in {"force_refresh"} \cup
                   (IF now * TickSeconds >= CACHE_DURATION_SECONDS
                    THEN {"periodic_refresh"} ELSE {}) :
         request' = [kind |-> kind]
    /\ refreshing' = Append(refreshing, [overtaken |-> FALSE])
    /\ UNCHANGED <<now, api_cache, completed>>
    /\ UNCHANGED demarkVars
    /\ UNCHANGED scoreVars
    /\ UNCHANGED orderVars
    /\ UNCHANGED indicatorVars
    /\ UNCHANGED <<fg_client, fg_call>>
    /\ UNCHANGED <<sentiment, conversion, generator, response>>

\* the cache left alone by a refresh that a later one has overtaken
WriteCache_UnlessOvertaken(refresh, signals, utcnow) ==
    IF refresh.overtaken THEN api_cache
    ELSE [signals |-> signals, last_update |-> <<utcnow>>]

\* _cache["signals"] = signals; _cache["last_update"] = datetime.utcnow()
WriteCache(refresh, signals, utcnow) ==
    [signals |-> signals, last_update |-> <<utcnow>>]

\* A refresh_signals call in progress ends: generate_all_signals returns on a
\* generator of its own, _cache is written, and save_signals returns or
\* raises.  The index is neutral and at most one asset has a result.
CompleteRefresh ==
    /\ \E i \in DOMAIN refreshing :
         \E fear_greed \in {[value |-> 50]},
            market \in {m \in MarketChoices :
                           \A k \in DOMAIN m :
                               m[k].result.present =>
                                   k = 1 /\ m[k].result.composite_score = 40},
            fault \in {"none", "fetch", "save"}, raised \in BOOLEAN :
             LET call == generate_all_signals(SignalGenerator, fear_greed,
                                              market, fault, now)
             IN  /\ api_cache' = WriteCache(refreshing[i], call.returned, now)
                 /\ completed' = [returned |-> TRUE,
                                  failed |-> fault # "none" \/ market = <<>>,
                                  signals |-> call.returned,
                                  generator |-> call.generator,
                                  overtaken |-> refreshing[i].overtaken,
                                  raised |-> raised]
                 /\ refreshing' = [k \in 1..(Len(refreshing) - 1) |->
                                      IF k < i THEN [overtaken |-> TRUE]
                                      ELSE refreshing[k + 1]]
    /\ UNCHANGED <<now, request>>
    /\ UNCHANGED demarkVars
    /\ UNCHANGED scoreVars
    /\ UNCHANGED orderVars
    /\ UNCHANGED indicatorVars
    /\ UNCHANGED <<fg_client, fg_call>>
    /\ UNCHANGED <<sentiment, conversion, generator, response>>

SpecCache ==
    InitSeries /\ [][Tick \/ GetCachedSignals \/ RefreshSignals \/ CompleteRefresh]_vars

-----------------------------------------------------------------------------
(* SpecFearGreed: FearGreedClient.get_fear_greed is called as time passes,  *)
(* and the API answers or fails.  The record is reduced to value,           *)
(* previous_value and change_24h.                                           *)

\* fear_greed_client.py: cache_duration, in seconds
cache_duration == 1800

\* get_fear_greed with a failed fetch answered by the default record even when
\* a record is cached
get_fear_greed_StaleCacheDropped(client, answer, utcnow) ==
    IF /\ client.cache # <<>>
       /\ client.cache_time # <<>>
       /\ (utcnow - client.cache_time[1]) * TickSeconds < cache_duration
    THEN [value |-> client.cache, client |-> client, requested |-> FALSE]
    ELSE IF answer.kind = "ok" /\ Len(answer.data) > 0
    THEN LET current == answer.data[1]
             current_value == IF "value" \in DOMAIN current THEN current.value ELSE 50
             previous_value == IF Len(answer.data) > 1 /\ "value" \in DOMAIN answer.data[2]
                               THEN answer.data[2].value ELSE current_value
             record == [value |-> current_value,
                        previous_value |-> previous_value,
                        change_24h |-> current_value - previous_value]
         IN  [value |-> record,
              client |-> [cache |-> record, cache_time |-> <<utcnow>>],
              requested |-> TRUE]
    ELSE [value |-> [value |-> 50, previous_value |-> 50, change_24h |-> 0],
          client |-> client, requested |-> TRUE]

\* get_fear_greed on the client at the time utcnow, answer being what the
\* request ends in if one is made: the value returned, the client as the call
\* leaves it, and whether a request was made
get_fear_greed(client, answer, utcnow) ==
    IF /\ client.cache # <<>>
       /\ client.cache_time # <<>>
       /\ (utcnow - client.cache_time[1]) * TickSeconds < cache_duration
    THEN [value |-> client.cache, client |-> client, requested |-> FALSE]
    ELSE IF answer.kind = "ok" /\ Len(answer.data) > 0
    THEN LET current == answer.data[1]
             current_value == IF "value" \in DOMAIN current THEN current.value ELSE 50
             previous_value == IF Len(answer.data) > 1 /\ "value" \in DOMAIN answer.data[2]
                               THEN answer.data[2].value ELSE current_value
             record == [value |-> current_value,
                        previous_value |-> previous_value,
                        change_24h |-> current_value - previous_value]
         IN  [value |-> record,
              client |-> [cache |-> record, cache_time |-> <<utcnow>>],
              requested |-> TRUE]
    ELSE IF client.cache # <<>>
    THEN [value |-> client.cache, client |-> client, requested |-> TRUE]
    ELSE [value |-> [value |-> 50, previous_value |-> 50, change_24h |-> 0],
          client |-> client, requested |-> TRUE]

\* get_fear_greed is called on the client.
GetFearGreed ==
    \* What a request may end in: a status other than 200, a timeout, another
    \* exception, or a 200 answer with its "data" list, each entry with a value or
    \* without.
    /\ \E answer \in
            ({[kind |-> "status"], [kind |-> "timeout"], [kind |-> "exception"]} \cup
             {[kind |-> "ok", data |-> d] :
                  d \in {<<>>, <<[value |-> 25]>>, <<[value |-> 75], [value |-> 25]>>,
                         <<[timestamp |-> 0], [value |-> 75]>>}}) :
         LET call == get_fear_greed(fg_client, answer, now)
         IN  /\ fg_client' = call.client
             /\ fg_call' = [returned |-> TRUE, requested |-> call.requested,
                            answer |-> IF call.requested THEN answer ELSE [kind |-> "none"],
                            value |-> call.value]
    /\ UNCHANGED <<sentiment, conversion, now, generator, response>>
    /\ UNCHANGED <<api_cache, refreshing, completed, request>>
    /\ UNCHANGED demarkVars
    /\ UNCHANGED scoreVars
    /\ UNCHANGED orderVars
    /\ UNCHANGED indicatorVars

SpecFearGreed == InitSeries /\ [][Tick \/ GetFearGreed]_vars

-----------------------------------------------------------------------------
(* Properties of calculate_demark, checked under SpecDemark *)

\* how bar i (1-based, i >= 5) compares with the bar four places back
Cmp(cs, i) ==
    IF cs[i] < cs[i - 4] THEN "sell"
    ELSE IF cs[i] > cs[i - 4] THEN "buy" ELSE "eq"

\* number of consecutive bars ending at bar i that all compare as dir
RECURSIVE RunEndingAt(_, _, _)
RunEndingAt(cs, i, dir) ==
    IF i < 5 \/ Cmp(cs, i) # dir THEN 0
    ELSE 1 + RunEndingAt(cs, i - 1, dir)

\* the counters of the forward loop after it has processed bars 5..k
ScanState(cs, k) ==
    IF k < 5 THEN <<0, 0>> ELSE ForwardScan(SubSeq(cs, 1, k), 5, <<0, 0>>)

ExpectedReversal(dir) == IF dir = "sell" THEN "bullish" ELSE "bearish"

\* C1: for a series of at least 5 closes the result is the state of the run
\* that ends at the last bar: count = min(9, length of the run of bars ending
\* at the last bar that all compare like it), direction that of the run; count
\* 0 and direction None when the last bar equals the bar four places back.
C1_RunAtLastBar ==
    Len(closes) >= 5 =>
        LET last == Cmp(closes, Len(closes))
        IN  IF last = "eq"
            THEN demark.count = 0 /\ demark.direction = None
            ELSE /\ demark.count = Min(9, RunEndingAt(closes, Len(closes), last))
                 /\ demark.direction = last

\* a run of two buy bars reported right after a longer sell run
C1_Witness ==
    /\ Len(closes) >= 11
    /\ demark.count = 2
    /\ demark.direction = "buy"
    /\ RunEndingAt(closes, Len(closes) - 2, "sell") >= 4

\* C2: when the last 9 bars (or more) each compare as sell the result is
\* count 9, direction sell, completed, signal bullish; symmetrically buy /
\* bearish; bars beyond the ninth keep count 9 and completed.
C2_NineBarsComplete ==
    \A dir \in {"sell", "buy"} :
        (Len(closes) >= 13 /\ RunEndingAt(closes, Len(closes), dir) >= 9) =>
            demark = [count |-> 9, direction |-> dir,
                      signal |-> ExpectedReversal(dir),
                      active |-> TRUE, completed |-> TRUE]

\* a sell run of ten bars: one qualifying bar beyond the completed setup
C2_Witness ==
    /\ Len(closes) >= 14
    /\ RunEndingAt(closes, Len(closes), "sell") >= 10
    /\ demark.completed

\* C3: at every step of the forward scan a bar that does not continue the
\* active run discards it: an equal bar leaves both counters 0 whatever they
\* were, a bar in the opposite direction leaves the old counter 0 and the new
\* direction's counter exactly 1.
C3_BreakDiscardsRun ==
    \A k \in 5..Len(closes) :
        LET before == ScanState(closes, k - 1)
            after  == ScanState(closes, k)
            c      == Cmp(closes, k)
        IN  /\ c = "eq" => after = <<0, 0>>
            /\ (c = "sell" /\ before[2] > 0) => after = <<1, 0>>
            /\ (c = "buy" /\ before[1] > 0) => after = <<0, 1>>

\* a completed count of 9 reset by one equal bar
C3_Witness ==
    /\ Len(closes) >= 14
    /\ ScanState(closes, Len(closes) - 1)[1] = 9
    /\ Cmp(closes, Len(closes)) = "eq"
    /\ sell_count = 0
    /\ demark.count = 0

\* the shape every returned record has
RecordShape(r, sc) ==
    /\ r.count \in 0..9
    /\ r.count = Max(sc[1], sc[2])
    /\ r.completed = (r.count = 9)
    /\ r.active = (r.count > 0)
    /\ <<r.direction, r.signal>> \in
           {<<"sell", "bullish">>, <<"buy", "bearish">>, <<None, None>>}
    /\ (r.direction = None) = (r.count = 0)

\* C4: at every step of the forward scan and in the returned record the
\* counters are in 0..9 and never both positive, completed holds exactly at
\* count 9, active exactly at count > 0, direction/signal are sell/bullish,
\* buy/bearish or None/None with None exactly at count 0; fewer than 5 closes
\* give the count-0 inactive record.
C4_DemarkInvariant ==
    /\ \A k \in 0..Len(closes) :
           LET sc == ScanState(closes, k)
           IN  /\ sc[1] \in 0..9 /\ sc[2] \in 0..9
               /\ ~(sc[1] > 0 /\ sc[2] > 0)
               /\ RecordShape(DemarkRecord(sc), sc)
    /\ RecordShape(demark, <<sell_count, buy_count>>)
    /\ Len(closes) < 5 =>
           demark = [count |-> 0, direction |-> None, signal |-> None,
                     active |-> FALSE, completed |-> FALSE]

\* a completed buy setup reached after a sell run
C4_Witness ==
    /\ demark.count = 9
    /\ demark.direction = "buy"
    /\ demark.completed
    /\ buy_count = 9
    /\ sell_count = 0

\* C5: after every bar the incremental tracker reports the record that
\* calculate_demark returns for the prefix seen so far.
C5_TrackerMatchesRescan ==
    /\ tracked = AsExhaustionState(demark)
    /\ tracker.last4 =
           SubSeq(closes, Max(1, Len(closes) - 3), Len(closes))

\* the tracker has counted a run, lost it and is counting the other way
C5_Witness ==
    /\ Len(closes) >= 12
    /\ tracked.count = 3
    /\ tracked.setup_kind = "sell"
    /\ RunEndingAt(closes, Len(closes) - 3, "buy") >= 4
    /\ demark.count = 3

-----------------------------------------------------------------------------
(* Properties of calculate_final_score, checked under SpecScore *)

\* every strength handed to the engine lies in [-1, 1]
StrengthsInRange ==
    \A tf \in TIMEFRAMES : \A key \in {"rsi", "ema", "macd", "bollinger", "volume"} :
        HasKey(indicator_results, tf, key) =>
            Abs(indicator_results[tf][key].strength) <= ONE

\* C6: for strengths in [-1,1] and any funding, open-interest and long/short
\* inputs the returned composite_score is in [-1,1], confidence in [0,1],
\* score in -3..3 and label = SCORE_LABELS[score].
C6_ScoreRanges ==
    (pc = "done" /\ StrengthsInRange) =>
        /\ -ONE <= result.composite_score /\ result.composite_score <= ONE
        /\ 0 <= result.confidence /\ result.confidence <= ONE
        /\ result.score \in -3..3
        /\ result.label = SCORE_LABELS[result.score]

\* a boosted strong score with funding, open interest and long/short present
C6_Witness ==
    /\ pc = "done"
    /\ funding_data.present /\ oi_data.present /\ ls_ratio_data.present
    /\ result.score = 3
    /\ result.label = "STRONG LONG"
    /\ result.composite > result.weighted
    /\ result.composite_score >= Pct(60)
    /\ result.confidence = ONE

\* the tier the cutoffs 0.55 / 0.35 / 0.15 / -0.15 / -0.35 / -0.55 give, each
\* read as "composite >= cutoff"
SpecTier(c) ==
    IF c >= Pct(55) THEN 3
    ELSE IF c >= Pct(35) THEN 2
    ELSE IF c >= Pct(15) THEN 1
    ELSE IF c >= -Pct(15) THEN 0
    ELSE IF c >= -Pct(35) THEN -1
    ELSE IF c >= -Pct(55) THEN -2
    ELSE -3

\* C7 as stated: the tier follows the cutoffs >= 0.55 -> +3, >= 0.35 -> +2,
\* >= 0.15 -> +1, >= -0.15 -> 0, >= -0.35 -> -1, >= -0.55 -> -2, else -3.
C7_AsStated ==
    pc = "done" =>
        /\ result.score = SpecTier(result.composite)
        /\ result.label = SCORE_LABELS[SpecTier(result.composite)]

\* C7 (amended): composite >= 0.6 -> +3, >= 0.35 -> +2, >= 0.15 -> +1;
\* composite <= -0.6 -> -3, <= -0.35 -> -2, <= -0.15 -> -1; otherwise 0.  A
\* composite of exactly -0.15 is LEAN SHORT and one of 0.55 is LONG.
C7_CodeCutoffs ==
    pc = "done" =>
        LET c == result.composite
            tier == IF c >= (ONE \div 10) * 6 THEN 3
                    ELSE IF c >= (ONE \div 100) * 35 THEN 2
                    ELSE IF c >= (ONE \div 100) * 15 THEN 1
                    ELSE IF c <= -(ONE \div 10) * 6 THEN -3
                    ELSE IF c <= -(ONE \div 100) * 35 THEN -2
                    ELSE IF c <= -(ONE \div 100) * 15 THEN -1
                    ELSE 0
        IN  /\ result.score = tier
            /\ result.label =
                   <<"STRONG SHORT", "SHORT", "LEAN SHORT", "NEUTRAL",
                     "LEAN LONG", "LONG", "STRONG LONG">>[tier + 4]

\* a composite of exactly -0.15 scored LEAN SHORT
C7_Witness ==
    /\ pc = "done"
    /\ result.composite = -Pct(15)
    /\ result.score = -1
    /\ result.label = "LEAN SHORT"

\* the ADX term of the confidence, in hundredths
SpecAdxTerm(a) ==
    IF a < 20 THEN 5 ELSE IF a < 40 THEN 15 ELSE IF a < 50 THEN 10 ELSE 5

\* the component scores that take part in the agreement count
SidedScores(r) ==
    <<r.breakdown.rsi, r.breakdown.ema, r.breakdown.macd,
      r.breakdown.bollinger, r.breakdown.funding>>

Present(component) ==
    CASE component = "rsi_multi_tf" -> WithKey(indicator_results, "rsi") # {}
      [] component = "ema_trend_multi_tf" -> WithKey(indicator_results, "ema") # {}
      [] component = "macd_multi_tf" -> WithKey(indicator_results, "macd") # {}
      [] component = "volume_confirmation" ->
             WithKey(indicator_results, "volume") # {}
      [] component = "bollinger_position" ->
             WithKey(indicator_results, "bollinger") # {}
      [] component = "liquidation_estimate" ->
             HasKey(indicator_results, "4h", "bollinger") \/ funding_data.present
      [] component = "funding_sentiment" ->
             funding_data.present \/ ls_ratio_data.present

Components ==
    {"rsi_multi_tf", "ema_trend_multi_tf", "macd_multi_tf", "volume_confirmation",
     "bollinger_position", "liquidation_estimate", "funding_sentiment"}

\* the weights, in hundredths, as config.py lists them
ListedWeight(component) ==
    CASE component = "rsi_multi_tf" -> 20
      [] component = "ema_trend_multi_tf" -> 20
      [] component = "macd_multi_tf" -> 15
      [] component = "volume_confirmation" -> 10
      [] component = "bollinger_position" -> 10
      [] component = "liquidation_estimate" -> 10
      [] component = "funding_sentiment" -> 15

\* the score the breakdown reports for a component
ScoreOf(r, component) ==
    CASE component = "rsi_multi_tf" -> r.breakdown.rsi
      [] component = "ema_trend_multi_tf" -> r.breakdown.ema
      [] component = "macd_multi_tf" -> r.breakdown.macd
      [] component = "volume_confirmation" -> r.breakdown.volume
      [] component = "bollinger_position" -> r.breakdown.bollinger
      [] component = "liquidation_estimate" -> r.breakdown.liquidation
      [] component = "funding_sentiment" -> r.breakdown.funding

\* sum of weight * score over the components in S
WeightedTotal(r, S) ==
    SumFn([c \in S |-> ListedWeight(c) * ScoreOf(r, c)], S)

WeightTotal(S) == SumFn([c \in S |-> ListedWeight(c)], S)

PresentComponents == {c \in Components : Present(c)}

SpecAdxModifier(a, base) ==
    LET aligned == \/ (a.direction = "bullish" /\ base > 0)
                   \/ (a.direction = "bearish" /\ base < 0)
    IN  IF a.adx < 20 THEN 85
        ELSE IF a.adx < 30 THEN (IF aligned THEN 105 ELSE 90)
        ELSE IF a.adx < 40 THEN (IF aligned THEN 115 ELSE 90)
        ELSE IF a.adx < 50 THEN (IF aligned THEN 110 ELSE 85)
        ELSE IF a.adx < 60 THEN (IF aligned THEN 90 ELSE 100)
        ELSE (IF aligned THEN 80 ELSE 110)

VolumeConfirms ==
    LET tfs == WithKey(indicator_results, "volume")
    IN  /\ tfs # {}
        /\ 2 * SumFn([tf \in tfs |-> indicator_results[tf].volume.strength], tfs)
               > Cardinality(tfs) * ONE

C25_VolumeNeverSetsDirection ==
    pc = "done" =>
        LET base == result.weighted
            boosted == VolumeConfirms /\ (5 * base > ONE \/ 5 * base < -ONE)
        IN  /\ result.breakdown.volume = 0
            /\ 100 * base = WeightedTotal(result, Components \ {"volume_confirmation"})
            /\ result.composite # base => boosted
            /\ boosted => result.composite = IF base > 0 THEN Min(ONE, base + ONE \div 10)
                                             ELSE Max(-ONE, base - ONE \div 10)
            /\ Sign(result.composite) = Sign(base)
            /\ Abs(result.score) >= Abs(TierOf(base, SCORE_THRESHOLDS))

\* a negative weighted sum boosted from the tier SHORT to STRONG SHORT
C25_Witness ==
    /\ pc = "done"
    /\ VolumeConfirms
    /\ result.weighted < -(ONE \div 5)
    /\ result.composite = result.weighted - ONE \div 10
    /\ TierOf(result.weighted, SCORE_THRESHOLDS) = -2
    /\ result.score = -3

\* the fields of a complete SignalScore
SignalScoreFields ==
    {"score", "label", "composite_score", "confidence", "breakdown"}

\* the indicator keys a timeframe may hold, with the place of each in the
\* agreements list (0: not in the list)
IndicatorKeys == {"rsi", "ema", "macd", "volume", "bollinger"}

AgreementIndex(key) ==
    CASE key = "rsi" -> 1 [] key = "ema" -> 2 [] key = "macd" -> 3
      [] key = "bollinger" -> 4 [] key = "volume" -> 0

\* C11: with funding, open-interest and long/short data absent and any subset
\* of timeframes and indicators missing, calculate_final_score returns a
\* complete SignalScore in which an indicator absent from every timeframe
\* scores 0 and is not counted as agreeing; with no indicator data at all the
\* result is tier 0 NEUTRAL with composite 0.
C11_MissingDataScoresZero ==
    (pc = "done" /\ ~funding_data.present /\ ~oi_data.present
                 /\ ~ls_ratio_data.present) =>
        /\ result.returned
        /\ SignalScoreFields \subseteq DOMAIN result
        /\ result.label \in {SCORE_LABELS[t] : t \in -3..3}
        /\ \A key \in IndicatorKeys :
               (\A tf \in TIMEFRAMES : ~HasKey(indicator_results, tf, key)) =>
                   /\ result.breakdown[key] = 0
                   /\ AgreementIndex(key) > 0 =>
                          result.agreements[AgreementIndex(key)] = 0
        /\ result.breakdown.funding = 0 /\ result.agreements[5] = 0
        /\ (\A tf \in TIMEFRAMES : ~HasKey(indicator_results, tf, "bollinger"))
               => result.breakdown.liquidation = 0
        /\ (\A key \in IndicatorKeys : \A tf \in TIMEFRAMES :
                ~HasKey(indicator_results, tf, key)) =>
               /\ result.score = 0 /\ result.label = "NEUTRAL"
               /\ result.composite = 0 /\ result.composite_score = 0

\* rsi, ema, bollinger and volume missing everywhere, macd present only in
\* some timeframes, and a composite that is not 0
C11_Witness ==
    /\ pc = "done"
    /\ ~funding_data.present /\ ~oi_data.present /\ ~ls_ratio_data.present
    /\ \E tf \in TIMEFRAMES : ~indicator_results[tf].present
    /\ \E tf \in TIMEFRAMES : HasKey(indicator_results, tf, "macd")
    /\ \A tf \in TIMEFRAMES : ~HasKey(indicator_results, tf, "rsi")
    /\ result.returned /\ result.breakdown.rsi = 0 /\ result.composite # 0

-----------------------------------------------------------------------------
(* Properties of repeated calls and of the configuration, checked under     *)
(* SpecEngine                                                               *)

\* the arguments of calculate_final_score and of calculate_demark
CallArguments ==
    <<indicator_results, funding_data, oi_data, ls_ratio_data, closes>>

ThresholdsMonotone(thresholds) ==
    /\ thresholds.strong_short < thresholds.short
    /\ thresholds.short < thresholds.lean_short
    /\ thresholds.lean_short < thresholds.lean_long
    /\ thresholds.lean_long < thresholds.long
    /\ thresholds.long < thresholds.strong_long

\* C15: a malformed configuration is rejected when the engine is set up, so
\* no score is ever produced from a SCORE_THRESHOLDS whose cutoffs are not
\* monotone.
C15_AsStated ==
    result.returned => ThresholdsMonotone(config.SCORE_THRESHOLDS)

-----------------------------------------------------------------------------
(* Properties of the insertion order, checked under SpecOrder *)

\* the orders in which the four timeframes can be inserted
InsertionOrders ==
    { tfs \in [1..Cardinality(TIMEFRAMES) -> TIMEFRAMES] :
        \A i, j \in DOMAIN tfs : tfs[i] = tfs[j] => i = j }

\* C13: the result of calculate_final_score (tier, label, composite and
\* confidence) does not depend on the order of the timeframes: the same
\* entries of indicator_results inserted in any other order give the same
\* result.
C13_AsStated ==
    pc = "done" =>
        \A tfs \in InsertionOrders :
            calculate_final_score_in_order(indicator_results, tfs) = result

-----------------------------------------------------------------------------
(* Properties of the indicator functions, checked under SpecIndicators *)

\* the function ended by returning, not by an exception
Returned(x) == "raised" \notin DOMAIN x

\* C16: with the default periods every indicator returns None, and raises
\* nothing, on a series shorter than its minimum (period + 1 prices for
\* calculate_rsi, period prices for calculate_ema and
\* calculate_bollinger_bands, 35 prices for calculate_macd, period + 1 bars
\* for calculate_adx, period + 1 volumes for calculate_relative_volume), and
\* no indicator raises on a longer one.
C16_AbsentBelowMinimum ==
    indicators.computed =>
        /\ Len(closes) < 14 + 1 => indicators.rsi = Absent
        /\ Len(closes) < 12 => indicators.ema_12 = Absent
        /\ Len(closes) < 26 => indicators.ema_26 = Absent
        /\ Len(closes) < 20 => indicators.bollinger = Absent
        /\ Len(closes) < 35 => indicators.macd = Absent
        /\ Len(closes) < 14 + 1 => indicators.adx = Absent
        /\ Len(volumes) < 7 + 1 => indicators.volume = Absent
        /\ Returned(indicators.rsi)
        /\ Returned(indicators.ema_12)
        /\ Returned(indicators.ema_26)
        /\ Returned(indicators.bollinger)
        /\ Returned(indicators.macd)
        /\ Returned(indicators.adx)
        /\ Returned(indicators.volume)

\* a flat series one price short of calculate_macd's minimum, long enough for
\* the other indicators
C16_Witness ==
    /\ indicators.computed
    /\ Len(closes) = 34
    /\ closes[34] = closes[1]
    /\ indicators.macd = Absent
    /\ indicators.rsi.present
    /\ indicators.ema_26.present
    /\ indicators.bollinger.present
    /\ indicators.volume.present

\* the last n changes of the series hold no fall
NoLossIn(cs, n) == \A i \in (Len(cs) - n + 1)..Len(cs) : cs[i] >= cs[i - 1]

\* C17: degenerate arithmetic has explicit fallbacks: calculate_rsi returns
\* 100 whenever the average loss is 0, calculate_bollinger_bands returns
\* percent_b = 0.5 whenever upper = lower, calculate_relative_volume returns
\* None whenever the average of the preceding volumes is 0, and calculate_macd
\* on an all-constant series of at least 35 prices returns histogram 0.
C17_AsStated ==
    indicators.computed =>
        /\ Len(closes) >= 14 + 1 /\ NoLossIn(closes, 14)
               => indicators.rsi = Value(100 * 100)
        /\ Len(closes) >= 20 /\ Flat(LastN(closes, 20))
               => /\ indicators.bollinger.present
                  /\ indicators.bollinger.percent_b = Value(Rat(1, 2))
        /\ Len(volumes) >= 7 + 1
           /\ SumSeq(SubSeq(volumes, Len(volumes) - 7, Len(volumes) - 1)) = 0
               => indicators.volume = Absent
        /\ Len(closes) >= 35 /\ Flat(closes)
               => /\ indicators.macd.present
                  /\ indicators.macd.histogram = R(0)

\* every price of the series is above the one before
StrictlyIncreasing(cs) == \A i \in 2..Len(cs) : cs[i] > cs[i - 1]

\* C19, as stated: for every strictly increasing series of at least 35 prices
\* calculate_rsi returns 100, calculate_ema(prices, 12) is above
\* calculate_ema(prices, 26) and calculate_macd reports bullish = true.
C19_AsStated ==
    indicators.computed /\ Len(closes) >= 35 /\ StrictlyIncreasing(closes) =>
        /\ indicators.rsi = Value(100 * 100)
        /\ RatLess(indicators.ema_26.value, indicators.ema_12.value)
        /\ indicators.macd.present
        /\ indicators.macd.bullish

\* C19, amended: for every strictly increasing series of at least 35 prices
\* calculate_rsi returns 100 and calculate_ema(prices, 12) is above
\* calculate_ema(prices, 26); calculate_macd reports bullish = true exactly
\* when macd_line is above signal_line, and on whole-number prices, none
\* below 0, that rise by a constant step the histogram is 0 and bullish is
\* false.
C19_RisingSeries ==
    indicators.computed /\ Len(closes) >= 35 /\ StrictlyIncreasing(closes) =>
        /\ indicators.rsi = Value(100 * 100)
        /\ RatLess(indicators.ema_26.value, indicators.ema_12.value)
        /\ indicators.macd.present
        /\ indicators.macd.bullish
               <=> RatLess(indicators.macd.signal_line, indicators.macd.macd_line)
        /\ Regular(closes) => /\ indicators.macd.histogram = R(0)
                              /\ ~indicators.macd.bullish

\* a rise by a constant step, long enough for calculate_macd
C19_Witness ==
    /\ indicators.computed
    /\ Len(closes) >= 36
    /\ StrictlyIncreasing(closes)
    /\ Regular(closes)
    /\ indicators.rsi = Value(100 * 100)
    /\ indicators.macd.present
    /\ indicators.macd.histogram = R(0)
    /\ ~indicators.macd.bullish

\* the DX values of the candles: dx_list of calculate_adx
DxValues(hi, lo, cs, period) ==
    DxList(wilders_smooth([i \in 1..(Len(hi) - 1) |-> TrueRange(hi, lo, cs, i)], period),
           wilders_smooth([i \in 1..(Len(hi) - 1) |-> PlusDM(hi, lo, i)], period),
           wilders_smooth([i \in 1..(Len(hi) - 1) |-> MinusDM(hi, lo, i)], period),
           1)

\* C21: calculate_adx returns None on fewer than 2 * period bars; when it
\* returns a record, adx is the mean of the last period DX values, adx is
\* between 0 and 100, and plus_di and minus_di are not negative.
C21_AdxRange ==
    indicators.computed =>
        /\ Len(closes) < 2 * 14 => indicators.adx = Absent
        /\ indicators.adx.present =>
               /\ indicators.adx.adx =
                      RoundHundredths(
                          RatDiv(RatSum(LastN(DxValues(highs, lows, closes, 14), 14)),
                                 R(14)))
               /\ indicators.adx.adx >= 0
               /\ indicators.adx.adx <= 100 * 100
               /\ indicators.adx.plus_di >= 0
               /\ indicators.adx.minus_di >= 0

\* a record whose last DX value differs from the ones before it
C21_Witness ==
    /\ indicators.computed
    /\ Len(closes) > 2 * 14
    /\ indicators.adx.present
    /\ indicators.adx.adx > 0
    /\ indicators.adx.adx < 100 * 100
    /\ indicators.adx.plus_di > 0
    /\ indicators.adx.minus_di > 0

\* the latest volume over the mean of the 7 volumes before it
LatestOverMean(vols) ==
    RatDiv(R(vols[Len(vols)]),
           Rat(SumSeq(SubSeq(vols, Len(vols) - 7, Len(vols) - 1)), 7))

\* C22, as stated: the ratio calculate_relative_volume returns is the latest
\* volume over the mean of the period volumes before it, and the signal is
\* 'high' exactly when that ratio is above 1.5, 'low' exactly when it is
\* below 0.5 and 'normal' otherwise.
C22_AsStated ==
    indicators.computed /\ indicators.volume.present =>
        /\ Rat(indicators.volume.ratio, 100) = LatestOverMean(volumes)
        /\ indicators.volume.signal =
               IF indicators.volume.ratio > 150 THEN "high"
               ELSE IF indicators.volume.ratio < 50 THEN "low"
               ELSE "normal"

\* C22, amended: the ratio returned is the latest volume over the mean of the
\* period volumes before it, rounded to two decimals; the signal is read off
\* the quotient before rounding: 'high' exactly when it is above 1.5, 'low'
\* exactly when it is below 0.5, 'normal' otherwise.
C22_RoundedRatio ==
    indicators.computed /\ indicators.volume.present =>
        /\ indicators.volume.ratio = RoundHundredths(LatestOverMean(volumes))
        /\ indicators.volume.signal =
               IF RatLess(Rat(3, 2), LatestOverMean(volumes)) THEN "high"
               ELSE IF RatLess(LatestOverMean(volumes), Rat(1, 2)) THEN "low"
               ELSE "normal"

\* the latest volume is exactly 1.5 times the mean of the 7 before it
C22_Witness ==
    /\ indicators.computed
    /\ indicators.volume.present
    /\ LatestOverMean(volumes) = Rat(3, 2)
    /\ indicators.volume.ratio = 150
    /\ indicators.volume.signal = "normal"

-----------------------------------------------------------------------------
(* Properties of calculate_rsi, checked under SpecRsi *)

\* Wilder's running average of the gains (sign = 1) or losses (sign = -1) of
\* the series: the simple average of the first period changes, then
\* (average * (period - 1) + change) / period for every later change
RECURSIVE WilderAverage(_, _, _, _)
WilderAverage(cs, n, period, sign) ==
    LET amount(i) == Max(sign * (cs[i + 1] - cs[i]), 0)
    IN  IF n = period
        THEN Rat(SumSeq([i \in 1..period |-> amount(i)]), period)
        ELSE RatDiv(RatAdd(RatMul(WilderAverage(cs, n - 1, period, sign),
                                  R(period - 1)),
                           R(amount(n))),
                    R(period))

\* the RSI, in hundredths, of Wilder's averages over all the changes
WilderRsi(cs, period) ==
    LET avg_gain == WilderAverage(cs, Len(cs) - 1, period, 1)
        avg_loss == WilderAverage(cs, Len(cs) - 1, period, -1)
    IN  IF avg_loss.n = 0 THEN Value(100 * 100) ELSE RsiValue(avg_gain, avg_loss)

\* C18, as stated: calculate_rsi is Wilder's RSI over the whole history, the
\* averages seeded with the first period changes and updated with every
\* later change.
C18_AsStated ==
    indicators.computed /\ Len(closes) >= 14 + 1 =>
        indicators.rsi = WilderRsi(closes, 14)

\* C18, amended: calculate_rsi averages the gains and the losses of the last
\* period changes only, so the RSI of a series is the RSI of its last
\* period + 1 prices, whatever the older changes were.
C18_RecentChangesOnly ==
    indicators.computed /\ Len(closes) >= 14 + 1 =>
        indicators.rsi = calculate_rsi(LastN(closes, 14 + 1), 14)

\* the series fell in its first changes and never in its last 14, and the
\* RSI is 100
C18_Witness ==
    /\ indicators.computed
    /\ Len(closes) = 14 + 3
    /\ closes[2] < closes[1]
    /\ closes[3] < closes[2]
    /\ NoLossIn(closes, 14)
    /\ indicators.rsi = Value(100 * 100)

-----------------------------------------------------------------------------
(* Properties of calculate_macd, checked under SpecMacd *)

\* the macd_line history: EMA12 - EMA26 of every prefix from index 26 on
CompleteMacdHistory(prices) ==
    [k \in 1..(Len(prices) - 26) |->
        RatSub(calculate_ema(SubSeq(prices, 1, k + 26), 12).value,
               calculate_ema(SubSeq(prices, 1, k + 26), 26).value)]

\* C20, as stated: in every result of calculate_macd macd_line is
\* EMA12 - EMA26 of the full series, signal_line is the 9-period EMA over the
\* complete macd_line history, one value for every bar from index 26 on, and
\* histogram is macd_line - signal_line, also when one of these values is 0.
C20_AsStated ==
    indicators.computed /\ indicators.macd.present =>
        /\ indicators.macd.macd_line =
               RatSub(calculate_ema(AsRats(closes), 12).value,
                      calculate_ema(AsRats(closes), 26).value)
        /\ indicators.macd.signal_line =
               calculate_ema(CompleteMacdHistory(AsRats(closes)), 9).value
        /\ indicators.macd.histogram =
               RatSub(indicators.macd.macd_line, indicators.macd.signal_line)

-----------------------------------------------------------------------------
(* Properties of analyze_ohlc_data and process_single_asset, checked under  *)
(* SpecPipeline                                                             *)

-----------------------------------------------------------------------------
(* Properties of get_fear_greed_signal, checked under SpecSentiment         *)

\* C23 as stated: v <= 20 -> +0.3, v <= 35 -> +0.15, v <= 65 -> 0,
\* v <= 80 -> -0.15, otherwise -0.3.
C23_AsStated ==
    sentiment.called =>
        sentiment.signal = IF sentiment.value <= 20 THEN Pct(30)
                           ELSE IF sentiment.value <= 35 THEN Pct(15)
                           ELSE IF sentiment.value <= 65 THEN 0
                           ELSE IF sentiment.value <= 80 THEN -Pct(15)
                           ELSE -Pct(30)

\* C23 (amended): every index value v is sent to v <= 20 -> +0.3,
\* v <= 40 -> +0.15, v <= 60 -> 0, v <= 80 -> -0.15, otherwise -0.3; the
\* result lies within [-0.3, 0.3], and of two calls the one with the larger
\* index value never gets the larger result.
C23_CodeBands ==
    [][/\ sentiment'.signal = IF sentiment'.value <= 20 THEN (ONE \div 10) * 3
                              ELSE IF sentiment'.value <= 40 THEN (ONE \div 100) * 15
                              ELSE IF sentiment'.value <= 60 THEN 0
                              ELSE IF sentiment'.value <= 80 THEN -(ONE \div 100) * 15
                              ELSE -(ONE \div 10) * 3
       /\ sentiment'.signal >= -(ONE \div 10) * 3
       /\ sentiment'.signal <= (ONE \div 10) * 3
       /\ sentiment.called /\ sentiment.value <= sentiment'.value
              => sentiment'.signal <= sentiment.signal]_vars

\* an index value of 40 was mapped to +0.15
C23_Witness ==
    /\ sentiment.called
    /\ sentiment.value = 40
    /\ sentiment.signal = (ONE \div 100) * 15

-----------------------------------------------------------------------------
(* Properties of the 7-tier conversion, checked under SpecThresholds        *)

\* C24: with the configured thresholds, of two composites the larger never
\* gets the lower tier, and the tier of -c is the negation of the tier of c,
\* also when c lies exactly on a threshold.
C24_MonotoneAntisymmetric ==
    [][conversion.called =>
         /\ conversion.composite <= conversion'.composite => conversion.score <= conversion'.score
         /\ conversion'.composite = -conversion.composite => conversion'.score = -conversion.score]_vars

\* a composite of exactly -0.15 got the tier -1
C24_Witness ==
    /\ conversion.called
    /\ conversion.composite = -(ONE \div 100) * 15
    /\ conversion.score = -1

-----------------------------------------------------------------------------
(* Properties of generate_all_signals, checked under SpecGenerate           *)

\* C26: in every result, total_assets is the number of assets, the sum of
\* bullish, bearish and neutral, and the sum of the seven by_score counts;
\* strong_signals is the sum of the counts of the scores -3, -2, 2 and 3; no
\* symbol appears twice; and each asset is followed by one of lower score, or
\* of equal score and no higher composite_score.
C26_SummaryAndOrder ==
    response.returned =>
        LET r == response.value
            by_score == r.summary.by_score
        IN  /\ r.total_assets = Len(r.assets)
            /\ r.total_assets = r.summary.bullish + r.summary.bearish + r.summary.neutral
            /\ r.total_assets = by_score[-3] + by_score[-2] + by_score[-1] + by_score[0]
                                    + by_score[1] + by_score[2] + by_score[3]
            /\ r.summary.strong_signals = by_score[-3] + by_score[-2] + by_score[2] + by_score[3]
            /\ \A i, j \in DOMAIN r.assets :
                   i < j =>
                       /\ r.assets[i].symbol # r.assets[j].symbol
                       /\ \/ r.assets[i].score > r.assets[j].score
                          \/ /\ r.assets[i].score = r.assets[j].score
                             /\ r.assets[i].composite_score >= r.assets[j].composite_score

\* three assets, the last of market_data moved to the front of an asset of
\* the same score and a lower composite_score
C26_Witness ==
    /\ response.returned
    /\ response.value.total_assets = 3
    /\ response.value.assets[1].symbol = "SOL"
    /\ response.value.assets[1].score = response.value.assets[2].score
    /\ response.value.assets[1].composite_score > response.value.assets[2].composite_score
    /\ response.value.summary.strong_signals = 2
    /\ response.value.summary.bearish = 1

-----------------------------------------------------------------------------
(* Properties of the API cache, checked under SpecCache                     *)

\* a step of get_cached_signals
GetCachedSignalsStep ==
    /\ request'.kind = "get_cached_signals"
    /\ now' = now
    /\ completed' = completed
    /\ Len(refreshing') >= Len(refreshing)
    /\ request' # request \/ refreshing' # refreshing

\* C27: get_cached_signals starts a refresh exactly when force_refresh is set,
\* the cache holds no signals, or the cache is older than 3600 seconds;
\* otherwise it returns the cached signals and leaves the cache as it is.
\* Once a refresh_signals call has returned, the cache holds signals and a time
\* of update.
C27_RefreshExactlyWhenNeeded ==
    [][/\ GetCachedSignalsStep =>
              /\ Len(refreshing') = Len(refreshing) + 1
                     <=> \/ request'.force_refresh
                         \/ api_cache.signals = [present |-> FALSE]
                         \/ /\ api_cache.last_update # <<>>
                            /\ (now - api_cache.last_update[1]) * TickSeconds > 3600
              /\ Len(refreshing') = Len(refreshing) =>
                     /\ request'.returned
                     /\ request'.value = api_cache.signals
                     /\ api_cache' = api_cache
       /\ Len(refreshing') < Len(refreshing) /\ ~completed'.raised =>
              /\ api_cache'.signals # [present |-> FALSE]
              /\ api_cache'.last_update = <<now>>]_vars

\* a cache exactly 3600 seconds old was served without a refresh
C27_Witness ==
    /\ request.kind = "get_cached_signals"
    /\ request.returned
    /\ request.value = api_cache.signals
    /\ api_cache.last_update # <<>>
    /\ (now - api_cache.last_update[1]) * TickSeconds = 3600
    /\ refreshing = <<>>

\* C28 as stated: when generate_all_signals fails (no market data, or an
\* exception caught) it returns the empty response and leaves signals_cache and
\* last_update of its generator as they were, here as constructed; the refresh
\* stores that response in the API cache and sets the time of update.
C28_AsStated ==
    completed.returned /\ completed.failed =>
        /\ completed.signals.total_assets = 0
        /\ completed.signals.assets = <<>>
        /\ completed.generator.signals_cache = <<>>
        /\ completed.generator.last_update = <<>>
        /\ api_cache.signals = completed.signals
        /\ api_cache.last_update # <<>>

\* C29: refreshes overlap, and every refresh that ends writes its own result
\* and the time to the cache, whether or not a refresh that started after it
\* has ended before it: the cache holds the result of the refresh that ended
\* last.
C29_NotSingleFlight ==
    [][Len(refreshing') < Len(refreshing) =>
           /\ api_cache'.signals = completed'.signals
           /\ api_cache'.last_update = <<now>>]_vars

\* the cache holds the result, an empty response, of a refresh that ended
\* after one that had started later
C29_Witness ==
    /\ completed.returned
    /\ completed.overtaken
    /\ api_cache.signals = completed.signals
    /\ api_cache.last_update = <<now>>
    /\ completed.failed
    /\ refreshing = <<>>

-----------------------------------------------------------------------------
(* Properties of FearGreedClient.get_fear_greed, checked under              *)
(* SpecFearGreed                                                            *)

\* C30: every call returns a record with a value.  Less than 30 minutes after
\* the last successful fetch it returns the cached record and makes no
\* request; when the request fails or gives no data it returns the cached
\* record if there is one and the neutral record with value 50 if not; and
\* the cache and its time change only on a successful fetch.
C30_AlwaysARecord ==
    [][now' = now =>
           /\ "value" \in DOMAIN fg_call'.value
           /\ fg_client.cache_time # <<>>
                  /\ (now - fg_client.cache_time[1]) * TickSeconds < 30 * 60 =>
                  /\ ~fg_call'.requested
                  /\ fg_call'.value = fg_client.cache
           /\ fg_call'.requested /\ (fg_call'.answer.kind # "ok" \/ fg_call'.answer.data = <<>>) =>
                  /\ fg_client.cache # <<>> => fg_call'.value = fg_client.cache
                  /\ fg_client.cache = <<>> => fg_call'.value.value = 50
           /\ fg_client' # fg_client =>
                  /\ fg_call'.requested
                  /\ fg_call'.answer.kind = "ok"
                  /\ fg_call'.answer.data # <<>>
                  /\ fg_client' = [cache |-> fg_call'.value, cache_time |-> <<now>>]]_vars

\* a timeout an hour after the last successful fetch, answered from the cache
C30_Witness ==
    /\ fg_call.returned
    /\ fg_call.requested
    /\ fg_call.answer.kind = "timeout"
    /\ fg_client.cache_time # <<>>
    /\ (now - fg_client.cache_time[1]) * TickSeconds = 3600
    /\ fg_call.value = fg_client.cache
    /\ fg_call.value.value = 75

====
